---- MODULE Spec2Model ----
(***************************************************************************)
(* RIFT standard library: the HTTP module (stdlib/http.py) and the          *)
(* WebSocket module (stdlib/websocket.py).                                 *)
(*                                                                         *)
(* One specification per component; the variables of the other           *)
(* components stay as constructed:                                         *)
(*   SpecSession  SessionStore (create/get/set/destroy/cleanup + clock)    *)
(*   SpecStore    SessionStore called from several threads                 *)
(*   SpecAlias    SessionStore and a host program that changes its dicts   *)
(*   SpecRate     RateLimiter called from several threads                  *)
(*   SpecCors     CORSHandler: configuration and add_headers               *)
(*   SpecBody     _parse_body / _parse_multipart on enumerated bodies      *)
(*   SpecRoute    route and static registration, requests without a body   *)
(*   SpecDispatch middleware registration, requests with bodies            *)
(*   SpecStatic   static mounts over routes and middleware                 *)
(*   SpecTraversal static mounts, request paths with '..' segments          *)
(*   SpecRespond  one route per handler behaviour, its answer              *)
(*   SpecCodec    WebSocket frames sent and received by both hosts         *)
(*   SpecConn     a connection read frame after frame by both hosts        *)
(*   SpecServer   WebSocketServer: connection threads, broadcast and send  *)
(*   SpecShutdown WebSocketServer started and stopped, threads scheduled   *)
(***************************************************************************)
EXTENDS Integers, Sequences, FiniteSets, TLC

VARIABLES
    now,        \* time.time(), in whole ticks
    sessions,   \* SessionStore._sessions : id -> [data, created_at, last_accessed]
    ttl,        \* SessionStore._ttl
    sop,        \* the SessionStore call that just returned, with what it saw
    lastOk,     \* per id, the instant of its last successful create/get/set
    lapsed,     \* the ids that were stored with now - last_accessed > ttl at some instant
    heap,       \* the dicts that session data refer to: what each holds, who holds a reference
    scall,      \* per thread, the SessionStore call it is in and what it has read
    lin,        \* the sequential runs that explain every result returned so far
    requests,   \* RateLimiter._requests : key -> list of timestamps (a defaultdict)
    maxRequests,\* RateLimiter._max_requests
    window,     \* RateLimiter._window
    rcall,      \* per thread, the RateLimiter call it is in and the `now` it read
    rop,        \* the RateLimiter call that just returned, with what it saw
    admitted,   \* per key and instant, how many calls that read that `now` were admitted
    denied,     \* per key: a call on it was denied and none admitted since
    cors,       \* RiftHTTPServer._cors : None or the CORSHandler's fields
    corsCall,   \* the add_headers call that just returned: its argument and its result
    decoded,    \* the _parse_body call that just returned or raised: arguments and outcome
    routes,     \* RiftHTTPServer._routes : list of (pattern, methods, handler, path)
    middleware, \* RiftHTTPServer._middleware : list of callbacks
    staticRoutes, \* RiftHTTPServer._static_routes : url prefix -> directory, in insertion order
    http,       \* the request _handle_request just handled and everything it did
    ws,         \* a WebSocket connection: the message, the frame on the wire, what was received
    clients,    \* WebSocketServer._clients : client_id -> socket, in insertion order
    handlers,   \* WebSocketServer._handlers : the events that have a callback
    running,    \* WebSocketServer._running
    loop,       \* where the accept loop of WebSocketServer.start is
    conn,       \* per connection, its _handle_client thread, its socket, the callbacks it invoked
    call        \* per caller thread, the broadcast or send it is in

None == "None"

\* Python's None where the other values are records
Unset == [none |-> TRUE]

Max2(a, b) == IF a >= b THEN a ELSE b

RECURSIVE SeqsUpTo(_, _)
SeqsUpTo(S, n) ==
    IF n = 0 THEN {<< >>}
    ELSE SeqsUpTo(S, n - 1) \cup {Append(q, x) : q \in {r \in SeqsUpTo(S, n - 1) : Len(r) = n - 1}, x \in S}

Range(q) == {q[i] : i \in 1..Len(q)}

\* q[a:b] of Python for 0 <= a, with b counted from the start (b >= 0)
Slice(q, a, b) == IF b <= a THEN << >> ELSE SubSeq(q, a + 1, IF b > Len(q) THEN Len(q) ELSE b)

(***************************************************************************)
(* The clock.                                                              *)
(***************************************************************************)
MaxTime == 4

storeVars == <<scall, lin>>
sessVars == <<sessions, ttl, sop, lastOk, lapsed, heap, storeVars>>
rateVars == <<requests, maxRequests, window, rcall, rop, admitted, denied>>

corsVars == <<cors, corsCall>>

bodyVars == <<decoded>>

httpVars == <<routes, middleware, staticRoutes, http>>

wsVars == <<ws>>

serverVars == <<clients, handlers, running, loop, conn, call>>

vars == <<now, sessVars, rateVars, corsVars, bodyVars, httpVars, wsVars, serverVars>>

\* what the calls of one component leave alone
notSession == <<rateVars, corsVars, bodyVars, httpVars, wsVars, serverVars>>
notRate == <<sessVars, corsVars, bodyVars, httpVars, wsVars, serverVars>>
notCors == <<now, sessVars, rateVars, bodyVars, httpVars, wsVars, serverVars>>
notBody == <<now, sessVars, rateVars, corsVars, httpVars, wsVars, serverVars>>
notHttp == <<now, sessVars, rateVars, corsVars, bodyVars, wsVars, serverVars>>
notWs == <<now, sessVars, rateVars, corsVars, bodyVars, httpVars, serverVars>>
notServer == <<now, sessVars, rateVars, corsVars, bodyVars, httpVars, wsVars>>

(***************************************************************************)
(* SessionStore  (http.py 32-91)                                           *)
(***************************************************************************)
MaxTtl == 2
SessionIds == {"s1", "s2"}
\* session data are dicts of the host program, named d0 and d1 here; the
\* SessionStore makes one more, {}, when create is given a falsy one (line 44)
SessionData == {"d0", "d1"}
Fresh(id) == IF id = "s1" THEN "e1" ELSE "e2"
Dicts == SessionData \cup {"e1", "e2"}
Contents == {"{}", "{a:1}", "{a:2}"}

NoOp ==
    [op |-> "none", id |-> None, ret |-> None, pre |-> FALSE, idle |-> 0, data |-> None,
     arg |-> None]

\* what a call saw just before it ran: was the id stored, how long had it been idle
\* (measured from the last call on it that succeeded), and the data stored
Seen(id) ==
    [pre  |-> id \in DOMAIN sessions,
     idle |-> IF id \in DOMAIN lastOk THEN now - lastOk[id] ELSE 0,
     data |-> IF id \in DOMAIN sessions THEN sessions[id].data ELSE None]

Returned(o, id, r) ==
    [op |-> o, id |-> id, ret |-> r,
     pre |-> Seen(id).pre, idle |-> Seen(id).idle, data |-> Seen(id).data, arg |-> None]

\* the connection threads that share the store
StoreThreads == {"t1", "t2"}
NoCall == [pc |-> "idle", op |-> "none", id |-> None, arg |-> None, now |-> 0]

\* a sequential run of the calls made so far: the store it leaves and, per
\* thread, "idle", "pending" (called, not yet run) or the value its call returned
NoRun == [store |-> << >>, res |-> [t \in StoreThreads |-> "idle"]]

SessionInit ==
    /\ sessions = << >>
    /\ sop = NoOp
    /\ lastOk = << >>
    /\ lapsed = {}
    /\ heap = [r \in Dicts |->
                 [val  |-> IF r = "d0" THEN "{a:1}" ELSE IF r = "d1" THEN "{a:2}" ELSE "{}",
                  held |-> r \in SessionData]]
    /\ scall = [t \in StoreThreads |-> NoCall]
    /\ lin = {NoRun}

\* the ghost clock of successful accesses
Touch(id) == [i \in DOMAIN lastOk \cup {id} |-> IF i = id THEN now ELSE lastOk[i]]

\* line 60: time.time() - session['last_accessed'] > self._ttl
Expired(s, t) == t - s.last_accessed > ttl

\* line 44, data or {}: the dict passed, or a new empty one when it is empty
DataOr(id, d) == IF heap[d].val = "{}" THEN Fresh(id) ELSE d

\* SessionStore.create: secrets.token_urlsafe(32) is an id never issued before
Create(id, d) ==
    /\ id \notin DOMAIN lastOk
    /\ sessions' = [i \in DOMAIN sessions \cup {id} |->
                      IF i = id
                      THEN [data |-> DataOr(id, d), created_at |-> now, last_accessed |-> now]
                      ELSE sessions[i]]
    /\ sop' = Returned("create", id, id)
    /\ lastOk' = Touch(id)
    /\ UNCHANGED <<now, ttl, lapsed, heap, storeVars>>
    /\ UNCHANGED notSession

\* mutant of GetResult: a successful get does not refresh last_accessed
GetResultNoRefresh(id) ==
    IF id \notin DOMAIN sessions
    THEN [store |-> sessions, ret |-> None]
    ELSE IF Expired(sessions[id], now)
         THEN [store |-> [i \in DOMAIN sessions \ {id} |-> sessions[i]], ret |-> None]
         ELSE [store |-> sessions, ret |-> sessions[id].data]

\* SessionStore.get: the new _sessions and the value returned
GetResult(id) ==
    IF id \notin DOMAIN sessions
    THEN [store |-> sessions, ret |-> None]
    ELSE IF Expired(sessions[id], now)
         THEN [store |-> [i \in DOMAIN sessions \ {id} |-> sessions[i]], ret |-> None]
         ELSE [store |-> [sessions EXCEPT ![id].last_accessed = now],
               ret |-> sessions[id].data]

Get(id) ==
    /\ sessions' = GetResult(id).store
    /\ sop' = Returned("get", id, GetResult(id).ret)
    /\ lastOk' = IF GetResult(id).ret # None THEN Touch(id) ELSE lastOk
    /\ heap' = IF GetResult(id).ret # None THEN [heap EXCEPT ![GetResult(id).ret].held = TRUE]
               ELSE heap
    /\ UNCHANGED <<now, ttl, lapsed, storeVars>>
    /\ UNCHANGED notSession

\* mutant of SetResult: set on an id that is not stored stores it
SetResultUpsert(id, d) ==
    [store |-> [i \in DOMAIN sessions \cup {id} |->
                  IF i = id THEN [data |-> d, created_at |-> now, last_accessed |-> now]
                  ELSE sessions[i]],
     ret |-> TRUE]

\* SessionStore.set
SetResult(id, d) ==
    IF id \notin DOMAIN sessions
    THEN [store |-> sessions, ret |-> FALSE]
    ELSE [store |-> [sessions EXCEPT ![id].data = d, ![id].last_accessed = now],
          ret |-> TRUE]

Set(id, d) ==
    /\ sessions' = SetResult(id, d).store
    /\ sop' = [Returned("set", id, SetResult(id, d).ret) EXCEPT !.arg = d]
    /\ lastOk' = IF SetResult(id, d).ret THEN Touch(id) ELSE lastOk
    /\ UNCHANGED <<now, ttl, lapsed, heap, storeVars>>
    /\ UNCHANGED notSession

\* SessionStore.destroy
Destroy(id) ==
    /\ sessions' = [i \in DOMAIN sessions \ {id} |-> sessions[i]]
    /\ sop' = Returned("destroy", id, id \in DOMAIN sessions)
    /\ UNCHANGED <<now, ttl, lastOk, lapsed, heap, storeVars>>
    /\ UNCHANGED notSession

\* SessionStore.cleanup
Cleanup ==
    /\ sessions' = [i \in {j \in DOMAIN sessions : ~Expired(sessions[j], now)} |-> sessions[i]]
    /\ sop' = [NoOp EXCEPT !.op = "cleanup"]
    /\ UNCHANGED <<now, ttl, lastOk, lapsed, heap, storeVars>>
    /\ UNCHANGED notSession

\* the ghost of expiry: the stored ids whose idle time exceeds ttl at instant t
\* join the ids that lapsed before
Lapsed(t) == lapsed \cup {id \in DOMAIN sessions : Expired(sessions[id], t)}

\* the clock advances between calls
SessionTick ==
    /\ now < MaxTime
    /\ now' = now + 1
    /\ sop' = NoOp
    /\ lapsed' = Lapsed(now')
    /\ UNCHANGED <<sessions, ttl, lastOk, heap, storeVars>>
    /\ UNCHANGED notSession

\* the host program changes a dict it holds a reference to: one it made
\* itself, or one that get returned (line 65 returns session['data'] itself)
Mutate(r, v) ==
    /\ heap[r].held
    /\ v # heap[r].val
    /\ heap' = [heap EXCEPT ![r].val = v]
    /\ sop' = NoOp
    /\ UNCHANGED <<now, sessions, ttl, lastOk, lapsed, storeVars>>
    /\ UNCHANGED notSession

(***************************************************************************)
(* SessionStore called from several threads.  The critical sections run    *)
(* one at a time under self._lock.  create, get, set and destroy read      *)
(* nothing before they take the lock, so such a call is one step: its      *)
(* critical section.  cleanup reads the clock before it takes the lock     *)
(* (line 86): that read is a step of its own.                              *)
(***************************************************************************)
MaxStoreTime == 3
StoreOps == {"create", "get", "set", "destroy"}
StoreData == {"d0"}

Shown(b) == IF b THEN "True" ELSE "False"

\* one call run alone on store S at instant t: the store it leaves and the
\* value it returns (SessionStore.create / get / set / destroy / cleanup)
Alone(c, S, t) ==
    CASE c.op = "create" ->
           [store |-> [i \in DOMAIN S \cup {c.id} |->
                         IF i = c.id
                         THEN [data |-> c.arg, created_at |-> t, last_accessed |-> t]
                         ELSE S[i]],
            shown |-> c.id]
      [] c.op = "get" ->
           IF c.id \notin DOMAIN S
           THEN [store |-> S, shown |-> None]
           ELSE IF t - S[c.id].last_accessed > ttl
                THEN [store |-> [i \in DOMAIN S \ {c.id} |-> S[i]], shown |-> None]
                ELSE [store |-> [S EXCEPT ![c.id].last_accessed = t], shown |-> S[c.id].data]
      [] c.op = "set" ->
           IF c.id \notin DOMAIN S
           THEN [store |-> S, shown |-> Shown(FALSE)]
           ELSE [store |-> [S EXCEPT ![c.id].data = c.arg, ![c.id].last_accessed = t],
                 shown |-> Shown(TRUE)]
      [] c.op = "destroy" ->
           [store |-> [i \in DOMAIN S \ {c.id} |-> S[i]], shown |-> Shown(c.id \in DOMAIN S)]
      [] OTHER ->
           [store |-> [i \in {j \in DOMAIN S : ~(t - S[j].last_accessed > ttl)} |-> S[i]],
            shown |-> None]

\* the runs in which one more pending call has run, at instant t
OneMore(C, calls, t) ==
    UNION {{[store |-> Alone(calls[u], c.store, t).store,
             res |-> [c.res EXCEPT ![u] = Alone(calls[u], c.store, t).shown]]
            : u \in {v \in StoreThreads : c.res[v] = "pending"}} : c \in C}

RECURSIVE Close(_, _, _, _)
Close(C, calls, t, n) ==
    IF n = 0 THEN C ELSE Close(C \cup OneMore(C, calls, t), calls, t, n - 1)

Called(t, c) == Close({[r EXCEPT !.res[t] = "pending"] : r \in lin},
                      [scall EXCEPT ![t] = c], now, Cardinality(StoreThreads))

\* the critical section of the call (lines 41-49, 52-65, 68-74, 77-82,
\* 87-91): the store it leaves, the value returned, and whether the call
\* succeeded on its id
Outcome(c) ==
    CASE c.op = "create" ->
           [store |-> [i \in DOMAIN sessions \cup {c.id} |->
                         IF i = c.id
                         THEN [data |-> c.arg, created_at |-> now, last_accessed |-> now]
                         ELSE sessions[i]],
            ret |-> c.id, shown |-> c.id, ok |-> TRUE]
      [] c.op = "get" ->
           [store |-> GetResult(c.id).store, ret |-> GetResult(c.id).ret,
            shown |-> GetResult(c.id).ret, ok |-> GetResult(c.id).ret # None]
      [] c.op = "set" ->
           [store |-> SetResult(c.id, c.arg).store, ret |-> SetResult(c.id, c.arg).ret,
            shown |-> Shown(SetResult(c.id, c.arg).ret), ok |-> SetResult(c.id, c.arg).ret]
      [] c.op = "destroy" ->
           [store |-> [i \in DOMAIN sessions \ {c.id} |-> sessions[i]],
            ret |-> c.id \in DOMAIN sessions, shown |-> Shown(c.id \in DOMAIN sessions),
            ok |-> FALSE]
      [] OTHER ->
           [store |-> [i \in {j \in DOMAIN sessions : ~Expired(sessions[j], c.now)} |->
                         sessions[i]],
            ret |-> None, shown |-> None, ok |-> FALSE]

TheCall(o, id, d) ==
    [NoCall EXCEPT !.pc = "lock", !.op = o, !.id = id,
                   !.arg = IF o \in {"create", "set"} THEN d ELSE None]

\* create / get / set / destroy called by a thread: the whole call.  The id
\* create draws (line 42) was never issued before.
StoreDo(t, o, id, d) ==
    /\ scall[t].pc = "idle"
    /\ o = "create" => id \notin DOMAIN lastOk
    /\ LET c == TheCall(o, id, d)
       IN /\ sessions' = Outcome(c).store
          /\ sop' = [op |-> o, id |-> id, ret |-> Outcome(c).ret, pre |-> Seen(id).pre,
                     idle |-> Seen(id).idle, data |-> Seen(id).data, arg |-> c.arg]
          /\ lastOk' = IF Outcome(c).ok THEN Touch(id) ELSE lastOk
          /\ lin' = {[r EXCEPT !.res[t] = "idle"] :
                       r \in {q \in Called(t, c) : q.res[t] = Outcome(c).shown}}
    /\ UNCHANGED <<now, ttl, lapsed, heap, scall>>
    /\ UNCHANGED notSession

\* line 86: cleanup reads the clock, then waits for the lock
CleanupCall(t) ==
    /\ scall[t].pc = "idle"
    /\ scall' = [scall EXCEPT ![t] = [NoCall EXCEPT !.pc = "lock", !.op = "cleanup", !.now = now]]
    /\ lin' = Called(t, scall'[t])
    /\ sop' = NoOp
    /\ UNCHANGED <<now, sessions, ttl, lastOk, lapsed, heap>>
    /\ UNCHANGED notSession

\* lines 87-90: cleanup under the lock, with the clock it read before
CleanupLocked(t) ==
    /\ scall[t].pc = "lock"
    /\ sessions' = Outcome(scall[t]).store
    /\ sop' = [NoOp EXCEPT !.op = "cleanup"]
    /\ scall' = [scall EXCEPT ![t] = NoCall]
    /\ lin' = {[r EXCEPT !.res[t] = "idle"] : r \in {q \in lin : q.res[t] = None}}
    /\ UNCHANGED <<now, ttl, lastOk, lapsed, heap>>
    /\ UNCHANGED notSession

\* the clock advances while calls are in progress
StoreTick ==
    /\ now < MaxStoreTime
    /\ now' = now + 1
    /\ lin' = Close(lin, scall, now', Cardinality(StoreThreads))
    /\ sop' = NoOp
    /\ lapsed' = Lapsed(now')
    /\ UNCHANGED <<sessions, ttl, lastOk, heap, scall>>
    /\ UNCHANGED notSession

(***************************************************************************)
(* RateLimiter  (http.py 97-129)                                           *)
(***************************************************************************)
MaxRequests == 2
MaxWindow == 2
MaxRateTime == 3
RateKeys == {"k1"}
RateThreads == {"t1", "t2"}

Idle == [pc |-> "idle"]
NoRateOp == [op |-> "none"]

RateInit ==
    /\ requests = << >>
    /\ rcall = [t \in RateThreads |-> Idle]
    /\ rop = NoRateOp
    /\ admitted = [k \in RateKeys |-> [t \in 0..MaxRateTime |-> 0]]
    /\ denied = [k \in RateKeys |-> FALSE]

\* self._requests[key] of a defaultdict(list)
Stamps(k) == IF k \in DOMAIN requests THEN requests[k] ELSE << >>

\* mutant of Prune: a timestamp exactly window old is kept
PruneInclusive(ts, t0) == SelectSeq(ts, LAMBDA t : t0 - t <= window)

\* lines 112-113 / 127-128: [t for t in self._requests[key] if now - t < self._window]
Prune(ts, t0) == SelectSeq(ts, LAMBDA t : t0 - t < window)

PutStamps(k, ts) == [j \in DOMAIN requests \cup {k} |-> IF j = k THEN ts ELSE requests[j]]

\* lines 116-120: the list after the call and the value returned
IsAllowedResult(ts, t0) ==
    IF Len(Prune(ts, t0)) < maxRequests
    THEN [stamps |-> Append(Prune(ts, t0), t0), ret |-> TRUE]
    ELSE [stamps |-> Prune(ts, t0), ret |-> FALSE]

\* mutant of RemainingResult: the timestamps are counted without pruning
RemainingResultUnpruned(ts, t0) == Max2(0, maxRequests - Len(ts))

\* line 129
RemainingResult(ts, t0) == Max2(0, maxRequests - Len(Prune(ts, t0)))

\* line 108 / 124: now = time.time(), read before the lock is taken
RateCall(t, o, k) ==
    /\ rcall[t] = Idle
    /\ rcall' = [rcall EXCEPT ![t] = [pc |-> "lock", op |-> o, key |-> k, now |-> now]]
    /\ rop' = NoRateOp
    /\ UNCHANGED <<requests, maxRequests, window, admitted, denied, now>>
    /\ UNCHANGED notRate

\* lines 110-120, under self._lock
IsAllowedLocked(t) ==
    /\ rcall[t] # Idle
    /\ rcall[t].op = "is_allowed"
    /\ LET k == rcall[t].key
           t0 == rcall[t].now
           r == IsAllowedResult(Stamps(k), t0)
       IN /\ requests' = PutStamps(k, r.stamps)
          /\ rop' = [op |-> "is_allowed", key |-> k, now |-> t0, ret |-> r.ret,
                     pre |-> Stamps(k), afterDenial |-> denied[k]]
          /\ admitted' = IF r.ret THEN [admitted EXCEPT ![k][t0] = @ + 1] ELSE admitted
          /\ denied' = [denied EXCEPT ![k] = ~r.ret]
    /\ rcall' = [rcall EXCEPT ![t] = Idle]
    /\ UNCHANGED <<maxRequests, window, now>>
    /\ UNCHANGED notRate

\* lines 126-129, under self._lock
RemainingLocked(t) ==
    /\ rcall[t] # Idle
    /\ rcall[t].op = "remaining"
    /\ LET k == rcall[t].key
           t0 == rcall[t].now
       IN /\ requests' = PutStamps(k, Prune(Stamps(k), t0))
          /\ rop' = [op |-> "remaining", key |-> k, now |-> t0,
                     ret |-> RemainingResult(Stamps(k), t0), pre |-> Stamps(k),
                     afterDenial |-> denied[k]]
    /\ rcall' = [rcall EXCEPT ![t] = Idle]
    /\ UNCHANGED <<maxRequests, window, admitted, denied, now>>
    /\ UNCHANGED notRate

RateTick ==
    /\ now < MaxRateTime
    /\ now' = now + 1
    /\ rop' = NoRateOp
    /\ UNCHANGED <<requests, maxRequests, window, rcall, admitted, denied>>
    /\ UNCHANGED notRate

(***************************************************************************)
(* CORSHandler  (http.py 135-166)                                          *)
(***************************************************************************)
MaxOrigins == 2
Origins == {"*", "https://a.com", "https://b.com", ""}
DefaultMethods == <<"GET", "POST", "PUT", "DELETE", "PATCH", "OPTIONS">>
DefaultHeaders == <<"Content-Type", "Authorization">>
MaxAge == 86400

CorsInit ==
    /\ cors = Unset
    /\ corsCall = Unset

\* the arguments of cors(): origins is a list or a bare string, methods a list or None
OriginsArgs == [list : {FALSE}, v : Origins] \cup [list : {TRUE}, v : SeqsUpTo(Origins, MaxOrigins)]
MethodsArgs == {Unset, [v |-> << >>], [v |-> <<"GET">>]}

\* CORSHandler.__init__: a bare string becomes a one-element list; a missing or
\* empty methods list is replaced by the default
CORSHandler(originsArg, methodsArg, credentialsArg) ==
    [origins     |-> IF originsArg.list THEN originsArg.v ELSE <<originsArg.v>>,
     methods     |-> IF methodsArg = Unset \/ methodsArg.v = << >> THEN DefaultMethods ELSE methodsArg.v,
     headers     |-> DefaultHeaders,
     credentials |-> credentialsArg,
     max_age     |-> MaxAge]

\* RiftHTTPServer.cors
Cors(originsArg, methodsArg, credentialsArg) ==
    /\ cors' = CORSHandler(originsArg, methodsArg, credentialsArg)
    /\ corsCall' = Unset
    /\ UNCHANGED notCors

\* Python truthiness of request_origin: None and '' are false
Truthy(o) == o # None /\ o # ""

\* mutant of AllowOrigin: a request origin outside the allow-set falls back to '*'
AllowOriginWildcardFallback(c, o) ==
    IF "*" \in Range(c.origins) THEN [v \in {"Access-Control-Allow-Origin"} |-> "*"]
    ELSE IF Truthy(o) /\ o \in Range(c.origins)
         THEN [v \in {"Access-Control-Allow-Origin"} |-> o]
         ELSE [v \in {"Access-Control-Allow-Origin"} |-> "*"]

\* lines 151-156: the Access-Control-Allow-Origin entry, if any
AllowOrigin(c, o) ==
    IF "*" \in Range(c.origins) THEN [v \in {"Access-Control-Allow-Origin"} |-> "*"]
    ELSE IF Truthy(o) /\ o \in Range(c.origins)
         THEN [v \in {"Access-Control-Allow-Origin"} |-> o]
         ELSE IF c.origins # << >>
              THEN [v \in {"Access-Control-Allow-Origin"} |-> c.origins[1]]
              ELSE << >>

\* mutant of FixedHeaders: Access-Control-Allow-Credentials is always emitted
FixedHeadersAlwaysCredentials(c) ==
    LET names == {"Access-Control-Allow-Methods", "Access-Control-Allow-Headers",
                  "Access-Control-Max-Age", "Access-Control-Allow-Credentials"}
    IN [n \in names |->
          CASE n = "Access-Control-Allow-Methods" -> [join |-> c.methods]
            [] n = "Access-Control-Allow-Headers" -> [join |-> c.headers]
            [] n = "Access-Control-Max-Age" -> [str |-> c.max_age]
            [] OTHER -> "true"]

\* lines 159-164: the other entries; ', '.join(list) is kept as the list joined
FixedHeaders(c) ==
    LET names == {"Access-Control-Allow-Methods", "Access-Control-Allow-Headers",
                  "Access-Control-Max-Age"}
                 \cup (IF c.credentials THEN {"Access-Control-Allow-Credentials"} ELSE {})
    IN [n \in names |->
          CASE n = "Access-Control-Allow-Methods" -> [join |-> c.methods]
            [] n = "Access-Control-Allow-Headers" -> [join |-> c.headers]
            [] n = "Access-Control-Max-Age" -> [str |-> c.max_age]
            [] OTHER -> "true"]

\* CORSHandler.add_headers
AddHeadersResult(c, o) == AllowOrigin(c, o) @@ FixedHeaders(c)

AddHeaders(o) ==
    /\ cors # Unset
    /\ corsCall' = [origin |-> o, headers |-> AddHeadersResult(cors, o)]
    /\ UNCHANGED cors
    /\ UNCHANGED notCors

(***************************************************************************)
(* Request bodies  (http.py 393-465)                                       *)
(*                                                                         *)
(* A body is a sequence of byte tokens.  "CR", "LF", "SP", "-", "1", "2"   *)
(* are single bytes; "BAD" is a byte that is not valid UTF-8 (0xFF);       *)
(* "--B" is the delimiter of boundary B; "D:..." and "CT:..." stand for a  *)
(* whole Content-Disposition / Content-Type header line of a part; "{}",   *)
(* "[1]" are JSON documents, "a=1" ... are url-encoded pairs.              *)
(***************************************************************************)
CRLF == <<"CR", "LF">>
Whitespace == {"CR", "LF", "SP"}

\* the Content-Disposition lines: what the two regular expressions of lines
\* 438 and 445 find in each.  name="([^"]+)" also matches inside
\* filename="...", so a line without a name attribute yields its filename.
DispLines == {"D:a", "D:b", "D:_files", "D:f;x.txt", "D:a;x.txt", "D:_files;x.txt", "D:;x.txt", "D:"}
DispName(h) ==
    CASE h = "D:a" -> "a" [] h = "D:b" -> "b" [] h = "D:_files" -> "_files"
      [] h = "D:f;x.txt" -> "f" [] h = "D:a;x.txt" -> "a" [] h = "D:_files;x.txt" -> "_files"
      [] h = "D:;x.txt" -> "x.txt"
      [] OTHER -> None
DispFilename(h) ==
    CASE h = "D:f;x.txt" -> "x.txt" [] h = "D:a;x.txt" -> "x.txt"
      [] h = "D:_files;x.txt" -> "x.txt" [] h = "D:;x.txt" -> "x.txt"
      [] OTHER -> None
\* the part's Content-Type lines: line 448 is case-sensitive
TypeLines == {"CT:text/plain", "ct:text/plain"}
TypeValue(h) == IF h = "CT:text/plain" THEN "text/plain" ELSE None

\* the first element of q that f maps to something, mapped; None if there is none
FirstFound(q, f(_)) ==
    LET hits == {i \in 1..Len(q) : f(q[i]) # None}
    IN IF hits = {} THEN None ELSE f(q[CHOOSE i \in hits : \A j \in hits : i <= j])

\* bytes.split(sep) for a one-token separator
RECURSIVE SplitOn(_, _, _)
SplitOn(q, sep, cur) ==
    IF q = << >> THEN <<cur>>
    ELSE IF Head(q) = sep THEN <<cur>> \o SplitOn(Tail(q), sep, << >>)
         ELSE SplitOn(Tail(q), sep, Append(cur, Head(q)))

\* bytes.find(b'\r\n\r\n'): the 0-based index, or -1
RECURSIVE FindBlankLine(_, _)
FindBlankLine(q, i) ==
    IF i + 4 > Len(q) THEN 0 - 1
    ELSE IF SubSeq(q, i + 1, i + 4) = CRLF \o CRLF THEN i ELSE FindBlankLine(q, i + 1)

\* bytes.decode('utf-8'): raises on an invalid byte
DecodeRaises(q) == "BAD" \in Range(q)
\* bytes.decode('utf-8', errors='replace')
DecodeReplace(q) == [i \in 1..Len(q) |-> IF q[i] = "BAD" THEN "U+FFFD" ELSE q[i]]

\* line 415: re.search(r'boundary=([^;]+)', content_type): the tokens of
\* group 1, or << >> when nothing matches
RECURSIVE UpToSemicolon(_)
UpToSemicolon(q) ==
    IF q = << >> \/ Head(q) = ";" THEN << >> ELSE <<Head(q)>> \o UpToSemicolon(Tail(q))
RECURSIVE BoundaryOf(_)
BoundaryOf(ct) ==
    IF ct = << >> THEN << >>
    ELSE IF Head(ct) = "boundary=" /\ UpToSemicolon(Tail(ct)) # << >>
         THEN UpToSemicolon(Tail(ct))
         ELSE BoundaryOf(Tail(ct))

\* line 419: '--' + boundary, as the delimiter token it is in a body
Delimiter(b) == IF b = <<"B">> THEN "--B" ELSE "--other"

NoFiles == << >>

\* mutant of PartResult: a later plain field does not replace an earlier one
PartResultFirstWins(part, result, files) ==
    LET he == FindBlankLine(part, 0)
        headers == Slice(part, 0, he)
        content == Slice(part, he + 4, Len(part) - 2)
        name == FirstFound(headers, DispName)
        filename == FirstFound(headers, DispFilename)
        ftype == FirstFound(headers, TypeValue)
    IN  IF Range(part) \subseteq Whitespace \/ he = 0 - 1
        THEN [raised |-> FALSE, result |-> result, files |-> files]
        ELSE IF DecodeRaises(headers)
        THEN [raised |-> TRUE, result |-> result, files |-> files]
        ELSE IF name = None
        THEN [raised |-> FALSE, result |-> result, files |-> files]
        ELSE IF filename # None
        THEN [raised |-> FALSE, result |-> result,
              files |-> Append(files,
                  [fieldname |-> name, filename |-> filename, content |-> content,
                   content_type |-> IF ftype # None THEN ftype ELSE "application/octet-stream",
                   size |-> Len(content)])]
        ELSE [raised |-> FALSE,
              result |-> IF name \in DOMAIN result THEN result
                         ELSE [n \in DOMAIN result \cup {name} |->
                                 IF n = name THEN [text |-> DecodeReplace(content)] ELSE result[n]],
              files |-> files]

\* lines 426-460: one iteration of the loop over the parts
PartResult(part, result, files) ==
    LET he == FindBlankLine(part, 0)
        headers == Slice(part, 0, he)
        content == Slice(part, he + 4, Len(part) - 2)
        name == FirstFound(headers, DispName)
        filename == FirstFound(headers, DispFilename)
        ftype == FirstFound(headers, TypeValue)
    IN  IF Range(part) \subseteq Whitespace \/ he = 0 - 1
        THEN [raised |-> FALSE, result |-> result, files |-> files]
        ELSE IF DecodeRaises(headers)
        THEN [raised |-> TRUE, result |-> result, files |-> files]
        ELSE IF name = None
        THEN [raised |-> FALSE, result |-> result, files |-> files]
        ELSE IF filename # None
        THEN [raised |-> FALSE, result |-> result,
              files |-> Append(files,
                  [fieldname |-> name, filename |-> filename, content |-> content,
                   content_type |-> IF ftype # None THEN ftype ELSE "application/octet-stream",
                   size |-> Len(content)])]
        ELSE [raised |-> FALSE,
              result |-> [n \in DOMAIN result \cup {name} |->
                            IF n = name THEN [text |-> DecodeReplace(content)] ELSE result[n]],
              files |-> files]

RECURSIVE PartsLoop(_, _, _)
PartsLoop(parts, result, files) ==
    IF parts = << >> THEN [raised |-> FALSE, result |-> result, files |-> files]
    ELSE LET r == PartResult(Head(parts), result, files)
         IN IF r.raised THEN r ELSE PartsLoop(Tail(parts), r.result, r.files)

\* RiftHTTPServer._parse_multipart
ParseMultipart(ct, body) ==
    IF BoundaryOf(ct) = << >> THEN [raised |-> FALSE, value |-> << >>]
    ELSE LET segs == SplitOn(body, Delimiter(BoundaryOf(ct)), << >>)
             parts == Slice(segs, 1, Len(segs) - 1)
             r == PartsLoop(parts, << >>, NoFiles)
         IN IF r.raised THEN [raised |-> TRUE, value |-> << >>]
            ELSE [raised |-> FALSE,
                  value |-> IF r.files # NoFiles
                            THEN [n \in DOMAIN r.result \cup {"_files"} |->
                                    IF n = "_files" THEN [files |-> r.files] ELSE r.result[n]]
                            ELSE r.result]

\* json.loads of decoded text: one JSON document, whitespace around it allowed
JsonDocs == {"{}", "[1]", "1"}
Strip(q) == SelectSeq(q, LAMBDA t : t \notin Whitespace)
JsonValid(q) == Len(Strip(q)) = 1 /\ Strip(q)[1] \in JsonDocs

\* parse_qs of decoded text: the pairs between the '&', key -> values in order
PairKey(t) == CASE t = "a=1" -> "a" [] t = "a=2" -> "a" [] t = "b=1" -> "b" [] OTHER -> None
PairValue(t) == CASE t = "a=1" -> "1" [] t = "a=2" -> "2" [] t = "b=1" -> "1" [] OTHER -> None
ValuesOf(q, k) ==
    LET hits == SelectSeq(q, LAMBDA t : PairKey(t) = k)
    IN [i \in 1..Len(hits) |-> PairValue(hits[i])]
\* lines 404-405: {k: v[0] if len(v) == 1 else v for k, v in parse_qs(...).items()}
ParseQs(q) ==
    [k \in {PairKey(t) : t \in Range(q)} \ {None} |->
        IF Len(ValuesOf(q, k)) = 1 THEN [one |-> ValuesOf(q, k)[1]]
                                   ELSE [many |-> ValuesOf(q, k)]]

\* RiftHTTPServer._parse_body.  The except clause of line 401 catches
\* json.JSONDecodeError only; the UnicodeDecodeError of body.decode('utf-8')
\* (lines 400 and 405) and whatever _parse_multipart raises propagate.
ParseBody(ct, body) ==
    IF body = << >> THEN [raised |-> FALSE, value |-> << >>]
    ELSE IF "application/json" \in Range(ct)
    THEN IF DecodeRaises(body) THEN [raised |-> TRUE, value |-> << >>]
         ELSE IF JsonValid(body) THEN [raised |-> FALSE, value |-> [json |-> Strip(body)[1]]]
         ELSE [raised |-> FALSE, value |-> << >>]
    ELSE IF "application/x-www-form-urlencoded" \in Range(ct)
    THEN IF DecodeRaises(body) THEN [raised |-> TRUE, value |-> << >>]
         ELSE [raised |-> FALSE, value |-> ParseQs(body)]
    ELSE IF "multipart/form-data" \in Range(ct)
    THEN ParseMultipart(ct, body)
    ELSE [raised |-> FALSE, value |-> [text |-> DecodeReplace(body)]]

(***************************************************************************)
(* The bodies decoded.                                                     *)
(***************************************************************************)
MaxParts == 2

CtJson == <<"application/json">>
CtForm == <<"application/x-www-form-urlencoded">>
CtMultipart == <<"multipart/form-data", ";", "boundary=", "B">>
CtText == <<"text/plain">>
ContentTypes ==
    {<< >>, CtJson, CtForm, CtMultipart, CtText,
     <<"multipart/form-data">>,
     <<"multipart/form-data", ";", "boundary=">>,
     <<"multipart/form-data", ";", "boundary=", "B", ";", "charset=utf-8">>,
     <<"multipart/form-data", ";", "boundary=", "\"", "B", "\"">>}

\* the parts of a well-formed multipart body
FieldParts == [name : {"a", "b", "_files"}, filename : {None}, ctype : {None},
               content : {<< >>, <<"1">>, <<"2", "CR", "LF", "CR", "LF", "1">>}]
FileParts == [name : {"f", "a", "_files"}, filename : {"x.txt"}, ctype : {None, "text/plain"},
              content : {<<"1">>, <<"BAD", "2">>}]
PartSpecs == FieldParts \cup FileParts

DispLineOf(ps) ==
    IF ps.filename = None
    THEN (CASE ps.name = "a" -> "D:a" [] ps.name = "b" -> "D:b" [] OTHER -> "D:_files")
    ELSE (CASE ps.name = "f" -> "D:f;x.txt" [] ps.name = "a" -> "D:a;x.txt" [] OTHER -> "D:_files;x.txt")

\* --B CRLF headers CRLF CRLF content CRLF, per part; then --B-- CRLF
EncodePart(ps) ==
    <<"--B">> \o CRLF \o <<DispLineOf(ps)>>
      \o (IF ps.ctype = None THEN << >> ELSE CRLF \o <<"CT:text/plain">>)
      \o CRLF \o CRLF \o ps.content \o CRLF
RECURSIVE EncodeParts(_)
EncodeParts(ps) == IF ps = << >> THEN << >> ELSE EncodePart(Head(ps)) \o EncodeParts(Tail(ps))
Multipart(ps, preamble, epilogue) ==
    preamble \o EncodeParts(ps) \o <<"--B", "-", "-">> \o CRLF \o epilogue

Preambles == {<< >>, <<"1", "CR", "LF">>}
Epilogues == {<< >>, <<"2">>}

\* bodies that are not well-formed multipart
OtherBodies ==
    {<< >>, <<"{}">>, <<"[1]">>, <<"SP", "{}", "LF">>, <<"1">>, <<"{}", "{}">>,
     <<"BAD">>, <<"{}", "BAD">>,
     <<"a=1">>, <<"a=1", "&", "a=2">>, <<"a=1", "&", "b=1">>, <<"a=1", "&", "BAD">>,
     \* no closing delimiter
     <<"--B", "CR", "LF", "D:a", "CR", "LF", "CR", "LF", "1", "CR", "LF">>,
     \* a part without the blank line
     <<"--B", "CR", "LF", "D:a", "CR", "LF", "1", "CR", "LF", "--B", "-", "-">>,
     \* a part without a name, one whose only attribute is a filename
     <<"--B", "CR", "LF", "D:", "CR", "LF", "CR", "LF", "1", "CR", "LF", "--B", "-", "-">>,
     <<"--B", "CR", "LF", "D:;x.txt", "CR", "LF", "CR", "LF", "1", "CR", "LF", "--B", "-", "-">>,
     \* a lower-case content-type line, an invalid byte in the headers
     <<"--B", "CR", "LF", "D:f;x.txt", "CR", "LF", "ct:text/plain", "CR", "LF", "CR", "LF", "1", "CR", "LF", "--B", "-", "-">>,
     <<"--B", "CR", "LF", "D:a", "BAD", "CR", "LF", "CR", "LF", "1", "CR", "LF", "--B", "-", "-">>,
     \* an invalid byte in a field's content
     <<"--B", "CR", "LF", "D:a", "CR", "LF", "CR", "LF", "BAD", "CR", "LF", "--B", "-", "-">>}

BodyInit == decoded = Unset

\* the arguments of a call of _parse_body(content_type, body); `parts` is what
\* a well-formed multipart body was built from (Unset otherwise)
BodyArgs ==
    {[ct |-> CtMultipart, body |-> Multipart(ps, pre, epi), parts |-> [given |-> ps], out |-> Unset] :
        ps \in SeqsUpTo(PartSpecs, MaxParts), pre \in Preambles, epi \in Epilogues}
    \cup [ct : ContentTypes, body : OtherBodies, parts : {Unset}, out : {Unset}]

\* the call of _parse_body on the arguments drawn
ParseBodyCall ==
    /\ decoded # Unset
    /\ decoded.out = Unset
    /\ decoded' = [decoded EXCEPT !.out = ParseBody(decoded.ct, decoded.body)]
    /\ UNCHANGED notBody

(***************************************************************************)
(* RiftHTTPServer: routes  (http.py 291-294, 368-381)                      *)
(*                                                                         *)
(* A path is a sequence of tokens: "/" and words.  In a template a word    *)
(* that starts with ':' is a parameter.  Templates are those whose         *)
(* parameters fill a segment and have distinct names, and whose words hold *)
(* no regular-expression metacharacter.                                    *)
(***************************************************************************)
MaxRoutes == 2
MaxStatic == 2
MaxMiddleware == 2

Params == {":id", ":name"}
ParamName(w) == IF w = ":id" THEN "id" ELSE "name"

TplAId == <<"/", "a", "/", ":id">>
TplAStatic == <<"/", "a", "/", "static">>
TplHello == <<"/", "hello", "/", ":name">>
Templates == {TplAId, TplAStatic, TplHello}

Upper(mth) == CASE mth = "get" -> "GET" [] mth = "post" -> "POST" [] OTHER -> mth

\* RiftHTTPServer._path_to_regex: ':(\w+)' becomes the group (?P<name>[^/]+),
\* everything else stays a literal; the pattern is anchored by ^ and $
PathToRegex(path) ==
    [i \in 1..Len(path) |->
        IF path[i] \in Params THEN [group |-> ParamName(path[i])] ELSE [lit |-> path[i]]]

\* the longest run of tokens other than "/" at the start of p: what [^/]+ takes
RECURSIVE Run(_)
Run(p) == IF p = << >> \/ Head(p) = "/" THEN << >> ELSE <<Head(p)>> \o Run(Tail(p))

NoMatch == [ok |-> FALSE, groups |-> << >>]

\* re.match(pattern, path): whether the whole path matches, and match.groupdict()
RECURSIVE ReMatch(_, _, _)
ReMatch(pattern, p, groups) ==
    IF pattern = << >> THEN (IF p = << >> THEN [ok |-> TRUE, groups |-> groups] ELSE NoMatch)
    ELSE IF "group" \in DOMAIN Head(pattern)
    THEN IF Run(p) = << >> THEN NoMatch
         ELSE ReMatch(Tail(pattern), SubSeq(p, Len(Run(p)) + 1, Len(p)),
                      [g \in DOMAIN groups \cup {Head(pattern).group} |->
                          IF g = Head(pattern).group THEN Run(p) ELSE groups[g]])
    ELSE IF p # << >> /\ Head(p) = Head(pattern).lit
         THEN ReMatch(Tail(pattern), Tail(p), groups)
         ELSE NoMatch

NotFound == [found |-> FALSE]

\* mutant of MatchRoute: the last registered route that matches wins
RECURSIVE MatchRouteLastWins(_, _, _)
MatchRouteLastWins(rs, method, path) ==
    IF rs = << >> THEN NotFound
    ELSE LET r == rs[Len(rs)]
             mt == ReMatch(r.pattern, path, << >>)
         IN IF method \in Range(r.methods) /\ mt.ok
            THEN [found |-> TRUE, handler |-> r.handler, params |-> mt.groups]
            ELSE MatchRouteLastWins(SubSeq(rs, 1, Len(rs) - 1), method, path)

\* RiftHTTPServer._match_route over the list rs
RECURSIVE MatchRoute(_, _, _)
MatchRoute(rs, method, path) ==
    IF rs = << >> THEN NotFound
    ELSE LET r == Head(rs)
             mt == ReMatch(r.pattern, path, << >>)
         IN IF method \in Range(r.methods) /\ mt.ok
            THEN [found |-> TRUE, handler |-> r.handler, params |-> mt.groups]
            ELSE MatchRoute(Tail(rs), method, path)

\* RiftHTTPServer.route
Route(path, methods, handler) ==
    /\ http = Unset
    /\ Len(routes) < MaxRoutes
    /\ routes' = Append(routes,
           [pattern |-> PathToRegex(path),
            methods |-> [i \in 1..Len(methods) |-> Upper(methods[i])],
            handler |-> handler,
            path    |-> path])
    /\ UNCHANGED <<middleware, staticRoutes, http>>
    /\ UNCHANGED notHttp

\* RiftHTTPServer.middleware
Middleware(handler) ==
    /\ http = Unset
    /\ Len(middleware) < MaxMiddleware
    /\ middleware' = Append(middleware, handler)
    /\ UNCHANGED <<routes, staticRoutes, http>>
    /\ UNCHANGED notHttp

\* RiftHTTPServer.static: a dict assignment; a prefix already there keeps its place
Static(url_path, directory) ==
    /\ http = Unset
    /\ \/ \E i \in 1..Len(staticRoutes) : staticRoutes[i].url_path = url_path
       \/ Len(staticRoutes) < MaxStatic
    /\ staticRoutes' =
          IF \E i \in 1..Len(staticRoutes) : staticRoutes[i].url_path = url_path
          THEN [i \in 1..Len(staticRoutes) |->
                  IF staticRoutes[i].url_path = url_path
                  THEN [url_path |-> url_path, directory |-> directory]
                  ELSE staticRoutes[i]]
          ELSE Append(staticRoutes, [url_path |-> url_path, directory |-> directory])
    /\ UNCHANGED <<routes, middleware, http>>
    /\ UNCHANGED notHttp

(***************************************************************************)
(* RiftHandler._handle_request  (http.py 476-603)                          *)
(*                                                                         *)
(* The host program registers between requests.  Host callbacks are        *)
(* opaque: a handler or middleware is one of a few behaviours, and what it *)
(* returns is a record                                                     *)
(*   [t |-> "none"]                      None                              *)
(*   [t |-> "raise", msg]                a raised exception                *)
(*   [t |-> "dict", status, contentType, headers, cookies, body]           *)
(*                                       a dict; a missing key is Unset    *)
(*   [t |-> "other", value]              any other value                   *)
(* A body or value is tagged by its type: [json |-> record] a dict,        *)
(* [list |-> seq], [bytes |-> seq], [text |-> string], [num |-> n],        *)
(* [null |-> TRUE] None, [bad |-> TRUE] a dict json.dumps cannot serialize.*)
(* A response written is [status, ctype, headers, body]: the status line,  *)
(* the Content-Type header, the header lines after it and what is written  *)
(* to wfile, Unset if nothing is.                                          *)
(***************************************************************************)
Handlers ==
    {"hello", "none", "boom", "page", "blob", "items", "count", "void", "empty",
     "bare", "barebody", "text", "number", "unjson"}
Middlewares == {"pass", "deny", "boom", "tag"}

ADict(status, contentType, headers, cookies, body) ==
    [t |-> "dict", status |-> status, contentType |-> contentType, headers |-> headers,
     cookies |-> cookies, body |-> body]

\* what a route handler does with the request
HandlerReturn(h, request) ==
    CASE h = "hello" ->
            IF "name" \in DOMAIN request.params
            THEN ADict([v |-> 200], Unset, Unset, Unset,
                       [json |-> [msg |-> <<"hi ">> \o request.params["name"]]])
            ELSE [t |-> "raise", msg |-> "no name"]
      [] h = "none" -> [t |-> "none"]
      [] h = "page" -> ADict([v |-> 201], [v |-> "text/html"], [v |-> <<<<"X-A", <<"1">>>>>>],
                             [v |-> <<<<"sid", "abc">>>>], [text |-> "<p>"])
      [] h = "blob" -> ADict([v |-> 200], [v |-> "image/png"], Unset, Unset, [bytes |-> <<137, 80>>])
      [] h = "items" -> ADict([v |-> 200], Unset, [v |-> << >>], Unset, [list |-> <<1, 2>>])
      [] h = "count" -> ADict([v |-> 200], [v |-> "text/plain"], Unset, Unset, [num |-> 5])
      [] h = "void" -> ADict([v |-> 200], Unset, Unset, Unset, [null |-> TRUE])
      [] h = "empty" -> ADict([v |-> 202], Unset, Unset, Unset, Unset)
      [] h = "bare" -> ADict(Unset, Unset, Unset, Unset, Unset)
      [] h = "barebody" -> ADict(Unset, Unset, Unset, Unset, [json |-> [a |-> 1]])
      [] h = "text" -> [t |-> "other", value |-> [text |-> "ok"]]
      [] h = "number" -> [t |-> "other", value |-> [num |-> 7]]
      [] h = "unjson" -> ADict([v |-> 200], Unset, Unset, Unset, [bad |-> TRUE])
      [] OTHER -> [t |-> "raise", msg |-> "boom"]

\* what a middleware does with the request
MiddlewareReturn(mw, request) ==
    CASE mw = "pass" -> [t |-> "none"]
      [] mw = "deny" -> ADict([v |-> 401], Unset, Unset, Unset, [json |-> [error |-> "denied"]])
      [] mw = "tag"  -> ADict(Unset, Unset, Unset, Unset, [text |-> "tag"])
      [] OTHER -> [t |-> "raise", msg |-> "boom"]

\* str(value)
Stringify(value) ==
    CASE "text" \in DOMAIN value -> value.text
      [] "num" \in DOMAIN value -> ToString(value.num)
      [] OTHER -> "None"

\* lines 555-557: one Set-Cookie line per cookie, f'{name}={value}'
SetCookies(cookies) ==
    [i \in 1..Len(cookies) |-> <<"Set-Cookie", <<cookies[i][1], "=", cookies[i][2]>>>>]

Written(status, ctype, headers, body) ==
    [status |-> status, ctype |-> ctype, headers |-> headers, body |-> body]

\* mutant of SendResponse: only a dict that carries a status is a response,
\* every other value is stringified as text/plain
SendResponseStatusOnly(response) ==
    IF response.t = "none" THEN [sent |-> <<Written(204, None, << >>, Unset)>>, error |-> Unset]
    ELSE IF response.t = "dict" /\ response.status # Unset
    THEN [sent |-> <<Written(response.status.v,
                             IF response.contentType = Unset THEN "application/json"
                             ELSE response.contentType.v,
                             (IF response.headers = Unset THEN << >> ELSE response.headers.v)
                                \o (IF response.cookies = Unset THEN << >>
                                    ELSE SetCookies(response.cookies.v)),
                             IF response.body = Unset THEN [str |-> ""]
                             ELSE IF "json" \in DOMAIN response.body THEN [json |-> response.body.json]
                             ELSE IF "list" \in DOMAIN response.body THEN [jsonlist |-> response.body.list]
                             ELSE IF "bytes" \in DOMAIN response.body THEN [bytes |-> response.body.bytes]
                             ELSE [str |-> Stringify(response.body)])>>,
          error |-> Unset]
    ELSE [sent |-> <<Written(200, "text/plain", << >>,
                             [str |-> IF response.t = "other" THEN Stringify(response.value)
                                      ELSE "{}"])>>,
          error |-> Unset]

\* RiftHandler._send_response: what is written, and the exception raised
\* while writing it (json.dumps, after the headers have gone out)
SendResponse(response) ==
    IF response.t = "none" THEN [sent |-> <<Written(204, None, << >>, Unset)>>, error |-> Unset]
    ELSE IF response.t = "dict"
    THEN LET status == IF response.status = Unset THEN 200 ELSE response.status.v
             headers == IF response.headers = Unset THEN << >> ELSE response.headers.v
             body == IF response.body = Unset THEN [text |-> ""] ELSE response.body
             content_type == IF response.contentType = Unset THEN "application/json"
                             ELSE response.contentType.v
             lines == headers \o (IF response.cookies = Unset THEN << >>
                                  ELSE SetCookies(response.cookies.v))
         IN IF "bad" \in DOMAIN body
            THEN [sent |-> <<Written(status, content_type, lines, Unset)>>,
                  error |-> [msg |-> "not JSON serializable"]]
            ELSE [sent |-> <<Written(status, content_type, lines,
                               IF "json" \in DOMAIN body THEN [json |-> body.json]
                               ELSE IF "list" \in DOMAIN body THEN [jsonlist |-> body.list]
                               ELSE IF "bytes" \in DOMAIN body THEN [bytes |-> body.bytes]
                               ELSE [str |-> Stringify(body)])>>,
                  error |-> Unset]
    ELSE [sent |-> <<Written(200, "text/plain", << >>, [str |-> Stringify(response.value)])>>,
          error |-> Unset]

\* mutant of SendError: the message goes out as plain text
SendErrorPlain(status, message) == <<Written(status, "text/plain", << >>, [str |-> message])>>

\* RiftHandler._send_error
SendError(status, message) ==
    <<Written(status, "application/json", << >>, [json |-> [error |-> message]])>>

\* lines 519-527 and 530-534: _send_response is called inside the try, so
\* what it raises is answered by _send_error(500) after what it has written
Respond(response) ==
    IF SendResponse(response).error = Unset THEN SendResponse(response).sent
    ELSE SendResponse(response).sent \o SendError(500, SendResponse(response).error.msg)

\* path.startswith(url_path)
StartsWith(p, prefix) == Len(prefix) <= Len(p) /\ SubSeq(p, 1, Len(prefix)) = prefix

\* mutant of StaticMount: the last mount registered wins
StaticMountLast(path) ==
    LET hits == {i \in 1..Len(staticRoutes) : StartsWith(path, staticRoutes[i].url_path)}
    IN IF hits = {} THEN 0 ELSE CHOOSE i \in hits : \A j \in hits : i >= j

\* lines 484-487: the first static mount whose prefix the path starts with, or 0
StaticMount(path) ==
    LET hits == {i \in 1..Len(staticRoutes) : StartsWith(path, staticRoutes[i].url_path)}
    IN IF hits = {} THEN 0 ELSE CHOOSE i \in hits : \A j \in hits : i <= j

\* path[len(url_path):].lstrip('/')
RECURSIVE LStrip(_)
LStrip(p) == IF p # << >> /\ Head(p) = "/" THEN LStrip(Tail(p)) ELSE p

FilePath(path, url_path) == LStrip(SubSeq(path, Len(url_path) + 1, Len(path)))

\* RiftHandler._serve_static; fs is what the file system holds at full_path.
\* An empty file_path names the directory itself, which is not a file.
ServeStatic(directory, file_path, fs) ==
    CASE fs = "missing" \/ file_path = << >> -> SendError(404, "File not found")
      [] fs = "unreadable" -> SendError(500, "Error reading file")
      [] OTHER -> <<Written(200, "mime", <<<<"Content-Length", <<"len(content)">>>>>>,
                            [file |-> <<directory>> \o file_path])>>

\* mutant of RunMiddleware: any value a middleware returns ends the chain
RECURSIVE RunMiddlewareStopOnValue(_, _, _)
RunMiddlewareStopOnValue(i, request, calls) ==
    IF i > Len(middleware) THEN [stop |-> FALSE, sent |-> << >>, calls |-> calls]
    ELSE LET r == MiddlewareReturn(middleware[i], request)
             called == Append(calls, [mw |-> i])
         IN IF r.t = "raise"
            THEN [stop |-> TRUE, sent |-> SendError(500, r.msg), calls |-> called]
            ELSE IF r.t = "dict"
            THEN [stop |-> TRUE, sent |-> Respond(r), calls |-> called]
            ELSE RunMiddlewareStopOnValue(i + 1, request, called)

\* lines 518-527: the middleware chain from the i-th middleware on
RECURSIVE RunMiddleware(_, _, _)
RunMiddleware(i, request, calls) ==
    IF i > Len(middleware) THEN [stop |-> FALSE, sent |-> << >>, calls |-> calls]
    ELSE LET r == MiddlewareReturn(middleware[i], request)
             called == Append(calls, [mw |-> i])
         IN IF r.t = "raise"
            THEN [stop |-> TRUE, sent |-> SendError(500, r.msg), calls |-> called]
            ELSE IF r.t = "dict" /\ r.status # Unset
            THEN [stop |-> TRUE, sent |-> Respond(r), calls |-> called]
            ELSE RunMiddleware(i + 1, request, called)

\* mutant of NoRoute: a path some template matches is answered 405
NoRoute405(method, path) ==
    IF \E i \in 1..Len(routes) : ReMatch(routes[i].pattern, path, << >>).ok
    THEN SendError(405, "Method not allowed")
    ELSE SendError(404, "Not found")

\* lines 492-494
NoRoute(method, path) == SendError(404, "Not found")

Handled(req, sent, calls, raised) ==
    [method |-> req.method, path |-> req.path, ct |-> req.ct, body |-> req.body,
     cl |-> req.cl, sent |-> sent, calls |-> calls, raised |-> raised]

\* lines 499-500: the Content-Length header is absent, a number (the length of
\* the body sent) or not a number; int() raises on the last
ContentLengths == {"absent", "number", "invalid"}
BodyRead(req) == IF req.cl = "number" THEN req.body ELSE << >>

\* RiftHandler._handle_request on the request req: what is written to the
\* client, which callbacks are called, and whether an exception escapes
Dispatch(req, fs) ==
    IF StaticMount(req.path) # 0
    THEN Handled(req, ServeStatic(staticRoutes[StaticMount(req.path)].directory,
                                  FilePath(req.path, staticRoutes[StaticMount(req.path)].url_path),
                                  fs),
                 << >>, FALSE)
    ELSE LET result == MatchRoute(routes, req.method, req.path)
         IN IF ~result.found THEN Handled(req, NoRoute(req.method, req.path), << >>, FALSE)
            ELSE LET parsed == ParseBody(req.ct, BodyRead(req))
                 IN IF req.cl = "invalid" \/ parsed.raised THEN Handled(req, << >>, << >>, TRUE)
                    ELSE LET request == [method |-> req.method, path |-> req.path,
                                         params |-> result.params, body |-> parsed.value]
                             chain == RunMiddleware(1, request, << >>)
                             response == HandlerReturn(result.handler, request)
                             called == Append(chain.calls,
                                              [handler |-> result.handler, params |-> result.params])
                         IN IF chain.stop THEN Handled(req, chain.sent, chain.calls, FALSE)
                            ELSE IF response.t = "raise"
                            THEN Handled(req, SendError(500, response.msg), called, FALSE)
                            ELSE Handled(req, Respond(response), called, FALSE)

\* HTTPServer handles one request at a time: do_GET, do_POST, ... run
\* _handle_request when the server is between requests
HandleRequest(method, path, ct, cl, body, fs) ==
    /\ http = Unset
    /\ http' = Dispatch([method |-> method, path |-> path, ct |-> ct, cl |-> cl, body |-> body], fs)
    /\ UNCHANGED <<routes, middleware, staticRoutes>>
    /\ UNCHANGED notHttp

\* serve_forever: the request is over and the server waits for the next one
ServeForever ==
    /\ http # Unset
    /\ http' = Unset
    /\ UNCHANGED <<routes, middleware, staticRoutes>>
    /\ UNCHANGED notHttp

HttpInit ==
    /\ routes = << >>
    /\ middleware = << >>
    /\ staticRoutes = << >>
    /\ http = Unset

(***************************************************************************)
(* WebSocket frames  (websocket.py 54-101, http.py 201-260)                *)
(*                                                                         *)
(* A byte is a number in 0..255.  A payload can be 70000 bytes long, so a  *)
(* stream of bytes is kept as a short explicit head followed by a run: len *)
(* bytes that repeat the 4 bytes of pat, starting at pat[off].  XOR with a *)
(* 4-byte mask key keeps a run a run.  A string is n characters that       *)
(* repeat the code points of unit.                                         *)
(***************************************************************************)
Min2(a, b) == IF a < b THEN a ELSE b

RECURSIVE Xor(_, _)
Xor(a, b) == IF a = 0 THEN b ELSE IF b = 0 THEN a
             ELSE (((a % 2) + (b % 2)) % 2) + 2 * Xor(a \div 2, b \div 2)

\* int.to_bytes(k, 'big') and struct.pack('>H' / '>Q')
RECURSIVE ToBytes(_, _)
ToBytes(n, k) == IF k = 0 THEN << >> ELSE Append(ToBytes(n \div 256, k - 1), n % 256)

\* int.from_bytes(b, 'big')
RECURSIVE FromBytes(_)
FromBytes(b) == IF b = << >> THEN 0 ELSE 256 * FromBytes(SubSeq(b, 1, Len(b) - 1)) + b[Len(b)]

EmptyRun == [len |-> 0, pat |-> <<0, 0, 0, 0>>, off |-> 0]

\* the first n bytes of the stream s, and what is left of it
Take(s, n) ==
    LET h == Min2(n, Len(s.head))
        r == Min2(n - h, s.run.len)
    IN [got  |-> [head |-> SubSeq(s.head, 1, h), run |-> [s.run EXCEPT !.len = r]],
        rest |-> [head |-> SubSeq(s.head, h + 1, Len(s.head)),
                  run  |-> [s.run EXCEPT !.len = @ - r, !.off = (@ + r) % 4]]]

Size(s) == Len(s.head) + s.run.len

\* the bytes of a short stream, one by one
Expand(s) == s.head \o [i \in 1..s.run.len |-> s.run.pat[((s.run.off + i - 1) % 4) + 1]]

\* str.encode('utf-8') of one code point
Utf8Encode(cp) ==
    IF cp < 128 THEN <<cp>>
    ELSE IF cp < 2048 THEN <<192 + (cp \div 64), 128 + (cp % 64)>>
    ELSE IF cp < 65536 THEN <<224 + (cp \div 4096), 128 + ((cp \div 64) % 64), 128 + (cp % 64)>>
    ELSE <<240 + (cp \div 262144), 128 + ((cp \div 4096) % 64), 128 + ((cp \div 64) % 64), 128 + (cp % 64)>>

RECURSIVE Utf8EncodeAll(_)
Utf8EncodeAll(cps) == IF cps = << >> THEN << >> ELSE Utf8Encode(Head(cps)) \o Utf8EncodeAll(Tail(cps))

Cont(b, i) == i <= Len(b) /\ b[i] >= 128 /\ b[i] <= 191

\* bytes.decode('utf-8') of explicit bytes: the code points, or not ok
RECURSIVE Utf8Decode(_)
Utf8Decode(b) ==
    IF b = << >> THEN [ok |-> TRUE, cps |-> << >>]
    ELSE LET b0 == b[1]
             width == IF b0 < 128 THEN 1
                      ELSE IF b0 >= 194 /\ b0 <= 223 /\ Cont(b, 2) THEN 2
                      ELSE IF /\ b0 >= 224 /\ b0 <= 239 /\ Cont(b, 2) /\ Cont(b, 3)
                              /\ (b0 = 224 => b[2] >= 160)
                              /\ (b0 = 237 => b[2] <= 159) THEN 3
                      ELSE IF /\ b0 >= 240 /\ b0 <= 244 /\ Cont(b, 2) /\ Cont(b, 3) /\ Cont(b, 4)
                              /\ (b0 = 240 => b[2] >= 144)
                              /\ (b0 = 244 => b[2] <= 143) THEN 4
                      ELSE 0
             cp == CASE width = 1 -> b0
                      [] width = 2 -> (b0 - 192) * 64 + (b[2] - 128)
                      [] width = 3 -> (b0 - 224) * 4096 + (b[2] - 128) * 64 + (b[3] - 128)
                      [] OTHER -> (b0 - 240) * 262144 + (b[2] - 128) * 4096
                                   + (b[3] - 128) * 64 + (b[4] - 128)
             more == Utf8Decode(SubSeq(b, width + 1, Len(b)))
         IN IF width = 0 \/ ~more.ok THEN [ok |-> FALSE, cps |-> << >>]
            ELSE [ok |-> TRUE, cps |-> <<cp>> \o more.cps]

\* the string of n characters that repeats unit
Str(n, unit) == IF n < Len(unit) THEN [n |-> n, unit |-> SubSeq(unit, 1, n)]
                ELSE [n |-> n, unit |-> unit]

Pad4(b) == [i \in 1..4 |-> IF i <= Len(b) THEN b[i] ELSE 0]

\* message.encode('utf-8'): a run
Encode(message) ==
    IF message.n = 0 THEN EmptyRun
    ELSE LET u == Len(message.unit)
             all == Utf8EncodeAll(message.unit)
             tail == Utf8EncodeAll(SubSeq(message.unit, 1, message.n % u))
         IN [len |-> (message.n \div u) * Len(all) + Len(tail), pat |-> Pad4(all), off |-> 0]

\* data.decode('utf-8') of the stream data: the string, or not ok
Decode(data) ==
    IF Size(data) < 4 \/ data.head # << >>
    THEN LET d == Utf8Decode(Expand(data))
         IN [ok |-> d.ok, text |-> [n |-> Len(d.cps), unit |-> d.cps]]
    ELSE LET pat == [i \in 1..4 |-> data.run.pat[((data.run.off + i - 1) % 4) + 1]]
             all == Utf8Decode(pat)
             tail == Utf8Decode(SubSeq(pat, 1, data.run.len % 4))
         IN [ok |-> all.ok /\ tail.ok,
             text |-> [n |-> (data.run.len \div 4) * Len(all.cps) + Len(tail.cps),
                       unit |-> all.cps]]

\* mutant of FrameHeader: no 8-byte length, the 2-byte form carries the low
\* 16 bits
FrameHeaderNoQuad(length) ==
    IF length <= 125 THEN <<129, length>>
    ELSE <<129, 126>> \o ToBytes(length % 65536, 2)

\* lines 59-67 of websocket.py, 209-217 of http.py: the frame header of a text
\* frame that carries length bytes
FrameHeader(length) ==
    IF length <= 125 THEN <<129, length>>
    ELSE IF length <= 65535 THEN <<129, 126>> \o ToBytes(length, 2)
    ELSE <<129, 127>> \o ToBytes(length, 8)

\* WebSocketServer._send_message: the bytes handed to sock.sendall
SendMessage(message) == [head |-> FrameHeader(Encode(message).len), run |-> Encode(message)]

\* WebSocketConnection.send: the bytes handed to wfile.write
Send(message) == [head |-> FrameHeader(Encode(message).len), run |-> Encode(message)]

\* a masked text frame as a client sends it: the header with the mask bit
\* set, the mask key, the payload XORed with the key
MaskedFrame(message, key) ==
    LET payload == Encode(message)
        header == FrameHeader(payload.len)
    IN [head |-> <<header[1], 128 + header[2]>> \o SubSeq(header, 3, Len(header)) \o key,
        run  |-> [payload EXCEPT !.pat = [i \in 1..4 |-> Xor(payload.pat[i], key[i])]]]

\* data[i] ^= mask[i % 4] for every i
Unmask(data, mask) ==
    IF Len(mask) < 4
    THEN [head |-> [i \in 1..Size(data) |-> Xor(Expand(data)[i], mask[((i - 1) % 4) + 1])],
          run  |-> EmptyRun]
    ELSE [head |-> [i \in 1..Len(data.head) |-> Xor(data.head[i], mask[((i - 1) % 4) + 1])],
          run  |-> [len |-> data.run.len,
                    pat |-> [j \in 1..4 |->
                               Xor(data.run.pat[((data.run.off + j - 1) % 4) + 1],
                                   mask[((Len(data.head) + j - 1) % 4) + 1])],
                    off |-> 0]]

\* what a receive call leaves: the message returned (or none), the payload
\* length it read from the header (if it got that far), whether the
\* connection is still connected as far as this call goes, the bytes left
\* unread, and whether some read returned fewer bytes than were asked for
NoMessage(length, connected, rest, short) ==
    [msg |-> Unset, length |-> length, connected |-> connected, rest |-> rest, short |-> short]

Message(text, length, rest, short) ==
    [msg |-> [text |-> text], length |-> [v |-> length], connected |-> TRUE, rest |-> rest,
     short |-> short]

\* sock.recv(n) returns at least one byte of those that have arrived and at
\* most n; how many is up to the network
RecvChoices == {"all", "one", "half", "allbutone"}
Amount(choice, m) ==
    CASE choice = "all" -> m
      [] choice = "one" -> Min2(1, m)
      [] choice = "half" -> IF m <= 1 THEN m ELSE m \div 2
      [] OTHER -> IF m <= 1 THEN m ELSE m - 1
Recv(s, n, choice) == Take(s, Amount(choice, Min2(n, Size(s))))

\* WebSocketServer._receive_message on the stream s; c holds what each recv
\* returns.  The bare except turns every exception into None.
ReceiveMessage(s, c) ==
    LET r1 == Recv(s, 2, c.h)
        header == Expand(r1.got)
    IN IF Len(header) # 2 THEN NoMessage(Unset, TRUE, r1.rest, TRUE)
       ELSE LET opcode == header[1] % 16
                masked == header[2] >= 128
                len7 == header[2] % 128
                extn == IF len7 = 126 THEN 2 ELSE IF len7 = 127 THEN 8 ELSE 0
                r2 == Recv(r1.rest, extn, c.e)
                ext == Expand(r2.got)
            IN IF Len(ext) # extn THEN NoMessage(Unset, TRUE, r2.rest, TRUE)
               ELSE LET length == IF extn = 0 THEN len7 ELSE FromBytes(ext)
                        r3 == Recv(r2.rest, IF masked THEN 4 ELSE 0, c.m)
                        mask == Expand(r3.got)
                        r4 == Recv(r3.rest, length, c.d)
                        data == r4.got
                        unmask == masked /\ mask # << >>
                        short == (masked /\ Len(mask) < 4) \/ Size(data) < length
                    IN IF unmask /\ Len(mask) < 4 /\ Size(data) > Len(mask)
                       THEN NoMessage([v |-> length], TRUE, r4.rest, short)
                       ELSE LET plain == IF unmask THEN Unmask(data, mask) ELSE data
                            IN IF opcode = 1 /\ Decode(plain).ok
                               THEN Message(Decode(plain).text, length, r4.rest, short)
                               ELSE NoMessage([v |-> length], TRUE, r4.rest, short)

\* WebSocketConnection.receive on the stream s: rfile.read(n) returns n bytes,
\* fewer only at the end of the stream
Receive(s) ==
    LET r1 == Take(s, 2)
        header == Expand(r1.got)
    IN IF Len(header) # 2 THEN NoMessage(Unset, TRUE, r1.rest, TRUE)
       ELSE LET opcode == header[1] % 16
                masked == header[2] >= 128
                len7 == header[2] % 128
                extn == IF len7 = 126 THEN 2 ELSE IF len7 = 127 THEN 8 ELSE 0
                r2 == Take(r1.rest, extn)
                length == IF extn = 0 THEN len7 ELSE FromBytes(Expand(r2.got))
                r3 == Take(r2.rest, IF masked THEN 4 ELSE 0)
                mask == Expand(r3.got)
                r4 == Take(r3.rest, length)
                data == r4.got
                short == \/ Size(r2.got) < extn
                         \/ masked /\ Len(mask) < 4
                         \/ Size(data) < length
            IN IF masked /\ (length > Size(data) \/ (Len(mask) < 4 /\ length > Len(mask)))
               THEN NoMessage([v |-> length], FALSE, r4.rest, short)
               ELSE LET plain == IF masked THEN Unmask(data, mask) ELSE data
                    IN IF opcode = 1
                       THEN IF Decode(plain).ok
                            THEN Message(Decode(plain).text, length, r4.rest, short)
                            ELSE NoMessage([v |-> length], FALSE, r4.rest, short)
                       ELSE NoMessage([v |-> length], opcode # 8, r4.rest, short)

Hosts == {"http", "standalone"}

\* nothing was written
NotSent == [written |-> FALSE]

\* the host sends ws.message to the peer.  WebSocketConnection.send writes
\* nothing when the connection is not connected (line 203) and marks it
\* closed when the write fails (line 223); a failing sock.sendall leaves
\* _send_message as an exception.
FrameSend ==
    /\ ws # Unset
    /\ ws.sent = Unset
    /\ \E ok \in BOOLEAN :
          ws' = IF ws.host = "http"
                THEN IF ~ws.connected THEN [ws EXCEPT !.sent = NotSent]
                     ELSE IF ok THEN [ws EXCEPT !.sent = Send(ws.message)]
                     ELSE [ws EXCEPT !.sent = NotSent, !.connected = FALSE]
                ELSE IF ok THEN [ws EXCEPT !.sent = SendMessage(ws.message)]
                     ELSE [ws EXCEPT !.sent = NotSent]
    /\ UNCHANGED notWs

\* the host reads one frame of ws.wire
FrameReceive ==
    /\ ws # Unset
    /\ ws.out = Unset
    /\ \E h \in RecvChoices, e \in RecvChoices, m \in RecvChoices, d \in RecvChoices :
          ws' = IF ws.host = "http"
                THEN [ws EXCEPT !.out = Receive(ws.wire),
                                !.connected = @ /\ Receive(ws.wire).connected]
                ELSE [ws EXCEPT !.out = ReceiveMessage(ws.wire, [h |-> h, e |-> e, m |-> m, d |-> d])]
    /\ UNCHANGED notWs

WsInit == ws = Unset

\* the messages sent and the masked frames received
MaxChars == 70000
Units == {<<97, 98, 99, 100>>, <<233, 233>>, <<97, 8364>>, <<128512>>}
CharCounts == {0, 1, 3, 10, 125, 126, 200, 65535, 65536, MaxChars}
Messages == {Str(n, unit) : n \in CharCounts, unit \in Units}
MaskKeys == {<<0, 0, 0, 0>>, <<55, 250, 33, 61>>, <<255, 255, 255, 255>>}
WsArgs ==
    {[host |-> host, message |-> message, key |-> key, wire |-> MaskedFrame(message, key),
      sent |-> Unset, out |-> Unset, connected |-> connected] :
        host \in Hosts, message \in Messages, key \in MaskKeys, connected \in BOOLEAN}

(***************************************************************************)
(* A connection: the peer sends one frame, whole or cut short by the end   *)
(* of the stream, and possibly a text frame after it; the host reads       *)
(* frame after frame.                                                      *)
(***************************************************************************)
\* a frame as a peer writes it: FIN and the opcode, the mask bit and the
\* length, the mask key if masked, the payload (XORed with the key if masked)
Frame(opcode, masked, payload, key) ==
    LET header == FrameHeader(payload.len)
    IN [head |-> <<128 + opcode, (IF masked THEN 128 ELSE 0) + header[2]>>
                   \o SubSeq(header, 3, Len(header)) \o (IF masked THEN key ELSE << >>),
        run  |-> IF masked
                 THEN [payload EXCEPT !.pat = [i \in 1..4 |-> Xor(payload.pat[i], key[i])]]
                 ELSE payload]

\* text, binary, close, ping, pong
Opcodes == {1, 2, 8, 9, 10}
ConnKey == <<55, 250, 33, 61>>
NotUtf8 == [len |-> 3, pat |-> <<255, 254, 253, 252>>, off |-> 0]
ConnPayloads ==
    {Encode(Str(0, <<97>>)), Encode(Str(3, <<97, 98, 99, 100>>)), Encode(Str(100, <<97, 8364>>)),
     NotUtf8}

\* where the stream can end inside a frame f (Size(f): it does not)
Cuts(f) == {k \in {0, 1, 3, Len(f.head) - 1, Len(f.head), Size(f) - 1, Size(f)} :
              0 <= k /\ k <= Size(f)}

\* the text frame that follows
After == Str(2, <<104, 105>>)
Join(a, b) == [head |-> Expand(a) \o b.head, run |-> b.run]
MaxJoined == 16

ConnArgs ==
    UNION {UNION {{[host |-> host, connected |-> TRUE, out |-> Unset, delivered |-> << >>,
                    reads |-> 0, short |-> FALSE, opcode |-> opcode, payload |-> payload,
                    truncated |-> ~after /\ cut < Size(Frame(opcode, masked, payload, ConnKey)),
                    after |-> after,
                    wire |-> IF after
                             THEN Join(Frame(opcode, masked, payload, ConnKey),
                                       Frame(1, TRUE, Encode(After), ConnKey))
                             ELSE Take(Frame(opcode, masked, payload, ConnKey), cut).got]
                   : cut \in Cuts(Frame(opcode, masked, payload, ConnKey)),
                     after \in {FALSE} \cup
                               {Size(Frame(opcode, masked, payload, ConnKey)) <= MaxJoined}}
                  : host \in Hosts, masked \in BOOLEAN}
           : opcode \in Opcodes, payload \in ConnPayloads}

MaxReads == 3

Read(out) ==
    [ws EXCEPT !.out = out, !.wire = out.rest, !.reads = @ + 1, !.short = @ \/ out.short,
               !.delivered = IF out.msg # Unset THEN Append(@, out.msg.text) ELSE @]

\* WebSocketServer._handle_client, one turn of the message loop (lines
\* 145-153): a message goes to the message callback; None ends the loop, and
\* the finally clause forgets the client and closes the socket
HandleClient ==
    /\ ws # Unset
    /\ ws.host = "standalone"
    /\ ws.connected
    /\ \E h \in RecvChoices, e \in RecvChoices, m \in RecvChoices, d \in RecvChoices :
          LET out == ReceiveMessage(ws.wire, [h |-> h, e |-> e, m |-> m, d |-> d])
          IN ws' = [Read(out) EXCEPT !.connected = out.msg # Unset]
    /\ UNCHANGED notWs

\* WebSocketConnection.receive, called by the application while the
\* connection is connected
ConnectionReceive ==
    /\ ws # Unset
    /\ ws.host = "http"
    /\ ws.connected
    /\ ws.reads < MaxReads
    /\ ws' = [Read(Receive(ws.wire)) EXCEPT !.connected = Receive(ws.wire).connected]
    /\ UNCHANGED notWs

(***************************************************************************)
(* WebSocketServer  (websocket.py 18-193)                                  *)
(*                                                                         *)
(* Each accepted connection runs _handle_client in a thread of its own;    *)
(* broadcast and send are called from other threads.  No lock guards       *)
(* _clients: a step is one access to the registry together with the local  *)
(* work around it.  A callback of the host program returns or raises.      *)
(* What _receive_message returns is an input here: a text or None.         *)
(***************************************************************************)
MaxFrames == 2
Conns == {"c1", "c2"}
Callers == {"a1"}
Events == {"connect", "message", "disconnect"}
\* the texts the peers send, in the order the server receives them
Texts == <<"m1", "m2", "m3">>

NoConn ==
    [pc |-> "new", key |-> FALSE, sent101 |-> FALSE, closed |-> FALSE, reached |-> FALSE,
     got |-> << >>, log |-> << >>, error |-> None]
NoBroadcast ==
    [pc |-> "idle", op |-> "none", id |-> None, snapshot |-> << >>, i |-> 0,
     sent |-> {}, failed |-> {}, result |-> None]

\* WebSocketServer.__init__
ServerInit ==
    /\ clients = << >>
    /\ handlers = {}
    /\ running = FALSE
    /\ loop = "off"
    /\ conn = [c \in Conns |-> NoConn]
    /\ call = [a \in Callers |-> NoBroadcast]

\* client_id in self._clients
Registered(c) == c \in Range(clients)

\* self._clients[client_id] = client_socket
Store(c) == IF Registered(c) THEN clients ELSE Append(clients, c)

\* del self._clients[client_id]
Deleted(c) == SelectSeq(clients, LAMBDA x : x # c)

\* interpreter._call(self._handlers[ev], ...) by the thread of connection c;
\* stored: line 139 has run before the call
Invoked(c, ev, msg) ==
    Append(conn[c].log, [ev |-> ev, msg |-> msg, stored |-> conn[c].sent101])

\* on_connect / on_message / on_disconnect: the host program registers its
\* callbacks before it starts the server
On(ev) ==
    /\ loop = "off"
    /\ handlers' = handlers \cup {ev}
    /\ UNCHANGED <<clients, running, loop, conn, call>>
    /\ UNCHANGED notServer

\* WebSocketServer.start, lines 169-179: the flag, the listening socket, and
\* into accept; the host program starts the server once
Start ==
    /\ loop = "off"
    /\ running' = TRUE
    /\ loop' = "accept"
    /\ UNCHANGED <<clients, handlers, conn, call>>
    /\ UNCHANGED notServer

\* WebSocketServer.stop: the flag, then the close of the listening socket
Stop ==
    /\ running
    /\ running' = FALSE
    /\ UNCHANGED <<clients, handlers, loop, conn, call>>
    /\ UNCHANGED notServer

\* lines 177-185: accept returns a connection, a thread runs _handle_client,
\* and the loop tests the flag again.  stop closes the listening socket from
\* another thread: an accept that is blocked at that time still returns the
\* next connection, or raises, as the platform has it.
Accept(c) ==
    /\ loop = "accept"
    /\ conn[c].pc = "new"
    /\ conn' = [conn EXCEPT ![c].pc = "handshake"]
    /\ loop' = IF running THEN "accept" ELSE "ended"
    /\ UNCHANGED <<clients, handlers, running, call>>
    /\ UNCHANGED notServer

\* lines 186-187: accept raises on the closed socket, the loop ends
AcceptRaises ==
    /\ loop = "accept"
    /\ ~running
    /\ loop' = "ended"
    /\ UNCHANGED <<clients, handlers, running, conn, call>>
    /\ UNCHANGED notServer

\* lines 107-139: the handshake.  key: the request carries Sec-WebSocket-Key;
\* ok: reading the request and sending the 101 response raise nothing.
\* `return` at line 120 is inside the try, so the finally clause runs.
Handshake(c, key, ok) ==
    /\ conn[c].pc = "handshake"
    /\ IF ~ok
       THEN /\ conn' = [conn EXCEPT ![c].pc = "finally", ![c].key = key]
            /\ UNCHANGED clients
       ELSE IF ~key
       THEN /\ conn' = [conn EXCEPT ![c].pc = "finally", ![c].closed = TRUE]
            /\ UNCHANGED clients
       ELSE /\ conn' = [conn EXCEPT ![c].pc = "connect", ![c].key = TRUE, ![c].sent101 = TRUE]
            /\ clients' = Store(c)
    /\ UNCHANGED <<handlers, running, loop, call>>
    /\ UNCHANGED notServer

\* lines 142-143: the connect callback; what it raises is caught at line 155
ConnectHandler(c, raises) ==
    /\ conn[c].pc = "connect"
    /\ conn' = [conn EXCEPT
                  ![c].reached = TRUE,
                  ![c].log = IF "connect" \in handlers THEN Invoked(c, "connect", None) ELSE @,
                  ![c].pc = IF "connect" \in handlers /\ raises THEN "finally" ELSE "loop"]
    /\ UNCHANGED <<clients, handlers, running, loop, call>>
    /\ UNCHANGED notServer

\* the text frames the server has received so far, over all connections
Received == Len(conn["c1"].got) + Len(conn["c2"].got)

\* line 146: while self._running, then into _receive_message
WhileRunning(c) ==
    /\ conn[c].pc = "loop"
    /\ conn' = [conn EXCEPT ![c].pc = IF running THEN "recv" ELSE "finally"]
    /\ UNCHANGED <<clients, handlers, running, loop, call>>
    /\ UNCHANGED notServer

\* lines 147-153: _receive_message returns message, None ends the loop, a
\* text goes to the message callback
MessageLoop(c, message, raises) ==
    /\ conn[c].pc = "recv"
    /\ message # None => Received < MaxFrames /\ message = Texts[Received + 1]
    /\ IF message = None
       THEN conn' = [conn EXCEPT ![c].pc = "finally"]
       ELSE conn' = [conn EXCEPT
                       ![c].got = Append(@, message),
                       ![c].log = IF "message" \in handlers THEN Invoked(c, "message", message) ELSE @,
                       ![c].pc = IF "message" \in handlers /\ raises THEN "finally" ELSE "loop"]
    /\ UNCHANGED <<clients, handlers, running, loop, call>>
    /\ UNCHANGED notServer

\* lines 159-160: the disconnect callback, inside the finally clause: what it
\* raises leaves _handle_client and ends the thread
DisconnectHandler(c, raises) ==
    /\ conn[c].pc = "finally"
    /\ conn' = [conn EXCEPT
                  ![c].log = IF "disconnect" \in handlers THEN Invoked(c, "disconnect", None) ELSE @,
                  ![c].error = IF "disconnect" \in handlers /\ raises THEN "callback" ELSE @,
                  ![c].pc = IF "disconnect" \in handlers /\ raises THEN "done" ELSE "check"]
    /\ UNCHANGED <<clients, handlers, running, loop, call>>
    /\ UNCHANGED notServer

\* line 162: if client_id in self._clients; line 165 when it is not
RegistryCheck(c) ==
    /\ conn[c].pc = "check"
    /\ conn' = IF Registered(c) THEN [conn EXCEPT ![c].pc = "del"]
               ELSE [conn EXCEPT ![c].pc = "done", ![c].closed = TRUE]
    /\ UNCHANGED <<clients, handlers, running, loop, call>>
    /\ UNCHANGED notServer

\* lines 163-165: del self._clients[client_id], a KeyError when the entry has
\* gone since line 162, then client_socket.close()
RegistryDel(c) ==
    /\ conn[c].pc = "del"
    /\ IF Registered(c)
       THEN /\ clients' = Deleted(c)
            /\ conn' = [conn EXCEPT ![c].pc = "done", ![c].closed = TRUE]
       ELSE /\ conn' = [conn EXCEPT ![c].pc = "done", ![c].error = "KeyError"]
            /\ UNCHANGED clients
    /\ UNCHANGED <<handlers, running, loop, call>>
    /\ UNCHANGED notServer

\* the loop of broadcast after the i-th client of the snapshot
BroadcastAfter(b) ==
    IF b.i >= Len(b.snapshot) THEN [b EXCEPT !.pc = "done", !.result = "ok"]
    ELSE [b EXCEPT !.pc = "iter", !.i = @ + 1]

\* line 43: list(self._clients.items())
Broadcast(a) ==
    /\ call[a].pc \in {"idle", "done"}
    /\ call' = [call EXCEPT ![a] =
                  BroadcastAfter([NoBroadcast EXCEPT !.op = "broadcast", !.snapshot = clients])]
    /\ UNCHANGED <<clients, handlers, running, loop, conn>>
    /\ UNCHANGED notServer

\* line 45: _send_message to the next client of the snapshot; it raises on a
\* closed socket, and on an open one when the peer has gone (ok is false)
BroadcastSend(a, ok) ==
    /\ call[a].pc = "iter"
    /\ LET c == call[a].snapshot[call[a].i]
       IN call' = [call EXCEPT ![a] =
                     IF ok /\ ~conn[c].closed
                     THEN BroadcastAfter([@ EXCEPT !.sent = @ \cup {c}])
                     ELSE [@ EXCEPT !.pc = "except"]]
    /\ UNCHANGED <<clients, handlers, running, loop, conn>>
    /\ UNCHANGED notServer

\* line 47: del self._clients[client_id] in the except clause; the KeyError
\* of an entry already gone leaves broadcast
BroadcastDel(a) ==
    /\ call[a].pc = "except"
    /\ LET c == call[a].snapshot[call[a].i]
       IN IF Registered(c)
          THEN /\ clients' = Deleted(c)
               /\ call' = [call EXCEPT ![a] = BroadcastAfter([@ EXCEPT !.failed = @ \cup {c}])]
          ELSE /\ call' = [call EXCEPT ![a].pc = "done", ![a].result = "KeyError"]
               /\ UNCHANGED clients
    /\ UNCHANGED <<handlers, running, loop, conn>>
    /\ UNCHANGED notServer

\* WebSocketServer.send, line 51: if client_id in self._clients
SendTo(a, id) ==
    /\ call[a].pc \in {"idle", "done"}
    /\ call' = [call EXCEPT ![a] =
                  IF Registered(id)
                  THEN [NoBroadcast EXCEPT !.op = "send", !.id = id, !.pc = "use"]
                  ELSE [NoBroadcast EXCEPT !.op = "send", !.id = id, !.pc = "done",
                                           !.result = "absent"]]
    /\ UNCHANGED <<clients, handlers, running, loop, conn>>
    /\ UNCHANGED notServer

\* line 52: self._clients[client_id], a KeyError when the entry has gone
\* since line 51, then _send_message, whose exception leaves send
SendUse(a, ok) ==
    /\ call[a].pc = "use"
    /\ call' = [call EXCEPT ![a].pc = "done",
                            ![a].result = IF ~Registered(call[a].id) THEN "KeyError"
                                          ELSE IF ok /\ ~conn[call[a].id].closed THEN "delivered"
                                          ELSE "OSError",
                            ![a].sent = IF Registered(call[a].id) /\ ok /\ ~conn[call[a].id].closed
                                        THEN {call[a].id} ELSE {}]
    /\ UNCHANGED <<clients, handlers, running, loop, conn>>
    /\ UNCHANGED notServer

(***************************************************************************)
(* Specifications.  Every specification starts from the state after        *)
(* construction and takes the steps of one component.                      *)
(***************************************************************************)
Constructed ==
    /\ now = 0
    /\ SessionInit
    /\ RateInit
    /\ CorsInit
    /\ HttpInit
    /\ ServerInit

InitSession == Constructed /\ BodyInit /\ WsInit /\ ttl \in 1..MaxTtl /\ maxRequests = 1 /\ window = 1

NextSession ==
    \/ \E id \in SessionIds, d \in SessionData : Create(id, d)
    \/ \E id \in SessionIds : Get(id)
    \/ \E id \in SessionIds, d \in SessionData : Set(id, d)
    \/ \E id \in SessionIds : Destroy(id)
    \/ Cleanup
    \/ SessionTick

SpecSession == InitSession /\ [][NextSession]_vars

\* one session, and a host program that also changes the dicts it holds
AliasIds == {"s1"}

InitAlias == Constructed /\ BodyInit /\ WsInit /\ ttl = 1 /\ maxRequests = 1 /\ window = 1

NextAlias ==
    \/ \E id \in AliasIds, d \in SessionData : Create(id, d)
    \/ \E id \in AliasIds : Get(id)
    \/ \E id \in AliasIds, d \in SessionData : Set(id, d)
    \/ \E id \in AliasIds : Destroy(id)
    \/ Cleanup
    \/ SessionTick
    \/ \E r \in Dicts, v \in Contents : Mutate(r, v)

SpecAlias == InitAlias /\ [][NextAlias]_vars

InitStore == Constructed /\ BodyInit /\ WsInit /\ ttl = 1 /\ maxRequests = 1 /\ window = 1

NextStore ==
    \/ \E t \in StoreThreads, o \in StoreOps, id \in SessionIds, d \in StoreData :
          StoreDo(t, o, id, d)
    \/ \E t \in StoreThreads : CleanupCall(t)
    \/ \E t \in StoreThreads : CleanupLocked(t)
    \/ StoreTick

SpecStore == InitStore /\ [][NextStore]_vars

InitRate ==
    Constructed /\ BodyInit /\ WsInit /\ maxRequests \in 1..MaxRequests /\ window \in 1..MaxWindow /\ ttl = 1

NextRate ==
    \/ \E t \in RateThreads, k \in RateKeys : RateCall(t, "is_allowed", k)
    \/ \E t \in RateThreads, k \in RateKeys : RateCall(t, "remaining", k)
    \/ \E t \in RateThreads : IsAllowedLocked(t)
    \/ \E t \in RateThreads : RemainingLocked(t)
    \/ RateTick

SpecRate == InitRate /\ [][NextRate]_vars

\* the components below take no argument at construction
InitPlain == Constructed /\ ttl = 1 /\ maxRequests = 1 /\ window = 1

NextCors ==
    \/ \E oa \in OriginsArgs, ma \in MethodsArgs, cr \in BOOLEAN : Cors(oa, ma, cr)
    \/ \E o \in Origins \cup {None, "https://c.com"} : AddHeaders(o)

InitCors == InitPlain /\ BodyInit /\ WsInit

SpecCors == InitCors /\ [][NextCors]_vars

\* _parse_body is a function of its arguments: they are drawn at the start
InitBody == InitPlain /\ WsInit /\ decoded \in BodyArgs

NextBody == ParseBodyCall

SpecBody == InitBody /\ [][NextBody]_vars

\* routes and static mounts are registered, requests carry no body
RouteMethods == {<<"get">>, <<"GET", "post">>}
RouteHandlers == {"hello", "none"}
StaticPrefixes == {<<"/", "a">>, <<"/", "s">>}
RequestMethods == {"GET", "POST"}
RequestPaths ==
    {<<"/", "a", "/", "static">>, <<"/", "a", "/", "x">>, <<"/", "a", "/">>,
     <<"/", "a", "/", "static", "X">>, <<"/", "a", "/", "x", "/", "y">>,
     <<"/", "hello", "/", "Ann">>, <<"/", "zzz">>, <<"/", "a", "X">>}
FileSystem == {"missing", "file", "unreadable"}

NextRoute ==
    \/ \E path \in Templates, methods \in RouteMethods, handler \in RouteHandlers :
          Route(path, methods, handler)
    \/ \E url_path \in StaticPrefixes : Static(url_path, "public")
    \/ \E method \in RequestMethods, path \in RequestPaths, fs \in FileSystem :
          HandleRequest(method, path, <<"">>, "absent", << >>, fs)
    \/ ServeForever

InitRoute == InitPlain /\ BodyInit /\ WsInit

SpecRoute == InitRoute /\ [][NextRoute]_vars

\* middleware is registered, requests carry bodies
DispatchPaths == {<<"/", "hello", "/", "Ann">>, <<"/", "a", "/", "x">>, <<"/", "s", "/", "f">>}
DispatchBodies == {<< >>, <<"{}">>, <<"BAD">>}

NextDispatch ==
    \/ Route(TplHello, <<"get">>, "hello")
    \/ Route(TplAId, <<"GET", "POST">>, "boom")
    \/ Static(<<"/", "s">>, "public")
    \/ \E handler \in Middlewares : Middleware(handler)
    \/ \E method \in RequestMethods, path \in DispatchPaths, ct \in {CtJson, CtText},
          cl \in ContentLengths, body \in DispatchBodies, fs \in FileSystem :
          HandleRequest(method, path, ct, cl, body, fs)
    \/ ServeForever

InitDispatch == InitPlain /\ BodyInit /\ WsInit

SpecDispatch == InitDispatch /\ [][NextDispatch]_vars

\* one route per handler behaviour, requests that reach the handler
InitRespond == InitPlain /\ BodyInit /\ WsInit

NextRespond ==
    \/ \E handler \in Handlers : Route(TplHello, <<"GET">>, handler)
    \/ \E method \in RequestMethods :
          HandleRequest(method, <<"/", "hello", "/", "Ann">>, CtText, "absent", << >>, "file")
    \/ ServeForever

SpecRespond == InitRespond /\ [][NextRespond]_vars

\* static mounts over a route and a middleware, requests of every kind
MountPrefixes == {<<"/", "a">>, <<"/", "a", "/", "static">>, <<"/", "s">>}
Directories == {"public", "assets"}
MountPaths ==
    {<<"/", "a", "/", "static">>, <<"/", "a", "/", "static", "/", "x">>, <<"/", "a">>,
     <<"/", "a", "X">>, <<"/", "s", "/", "/", "f">>, <<"/", "hello", "/", "Ann">>}

InitStatic == InitPlain /\ BodyInit /\ WsInit

NextStatic ==
    \/ Route(TplAStatic, <<"GET", "POST">>, "none")
    \/ Middleware("pass")
    \/ \E url_path \in MountPrefixes, directory \in Directories : Static(url_path, directory)
    \/ \E method \in RequestMethods, path \in MountPaths, cl \in ContentLengths, fs \in FileSystem :
          HandleRequest(method, path, CtJson, cl, <<"BAD">>, fs)
    \/ ServeForever

SpecStatic == InitStatic /\ [][NextStatic]_vars

\* one mount, or a mount inside a mount, and request paths with '..' segments
TraversalPrefixes == {<<"/", "s">>, <<"/", "s", "/", "x">>}
TraversalPaths ==
    {<<"/", "s", "/", "f">>, <<"/", "s", "/", "x", "/", "f">>, <<"/", "s", "X">>,
     <<"/", "s", "/", "..", "/", "secret">>, <<"/", "s", "/", "x", "/", "..", "/", "f">>,
     <<"/", "s", "/", "x", "/", "..", "/", "..", "/", "secret">>, <<"/", "t", "/", "f">>}

InitTraversal == InitPlain /\ BodyInit /\ WsInit

NextTraversal ==
    \/ \E url_path \in TraversalPrefixes, directory \in Directories : Static(url_path, directory)
    \/ \E path \in TraversalPaths, fs \in FileSystem :
          HandleRequest("GET", path, CtJson, "absent", << >>, fs)
    \/ ServeForever

SpecTraversal == InitTraversal /\ [][NextTraversal]_vars

\* one message and one masked frame per connection
InitCodec == InitPlain /\ BodyInit /\ ws \in WsArgs

NextCodec == FrameSend \/ FrameReceive

SpecCodec == InitCodec /\ [][NextCodec]_vars

InitConn == InitPlain /\ BodyInit /\ ws \in ConnArgs

NextConn == HandleClient \/ ConnectionReceive

SpecConn == InitConn /\ [][NextConn]_vars

InitServer == InitPlain /\ BodyInit /\ WsInit

NextServer ==
    \/ \E ev \in Events : On(ev)
    \/ Start
    \/ Stop
    \/ \E c \in Conns : Accept(c)
    \/ AcceptRaises
    \/ \E c \in Conns, key \in BOOLEAN, ok \in BOOLEAN : Handshake(c, key, ok)
    \/ \E c \in Conns, raises \in BOOLEAN : ConnectHandler(c, raises)
    \/ \E c \in Conns : WhileRunning(c)
    \/ \E c \in Conns, message \in Range(Texts) \cup {None}, raises \in BOOLEAN : MessageLoop(c, message, raises)
    \/ \E c \in Conns, raises \in BOOLEAN : DisconnectHandler(c, raises)
    \/ \E c \in Conns : RegistryCheck(c)
    \/ \E c \in Conns : RegistryDel(c)
    \/ \E a \in Callers : Broadcast(a)
    \/ \E a \in Callers, ok \in BOOLEAN : BroadcastSend(a, ok)
    \/ \E a \in Callers : BroadcastDel(a)
    \/ \E a \in Callers, id \in Conns : SendTo(a, id)
    \/ \E a \in Callers, ok \in BOOLEAN : SendUse(a, ok)

SpecServer == InitServer /\ [][NextServer]_vars

\* the steps of the thread of connection c
Thread(c) ==
    \/ \E key \in BOOLEAN, ok \in BOOLEAN : Handshake(c, key, ok)
    \/ \E raises \in BOOLEAN : ConnectHandler(c, raises)
    \/ WhileRunning(c)
    \/ \E message \in Range(Texts) \cup {None}, raises \in BOOLEAN : MessageLoop(c, message, raises)
    \/ \E raises \in BOOLEAN : DisconnectHandler(c, raises)
    \/ RegistryCheck(c)
    \/ RegistryDel(c)

InitShutdown == InitPlain /\ BodyInit /\ WsInit

NextShutdown ==
    \/ \E ev \in Events : On(ev)
    \/ Start
    \/ Stop
    \/ \E c \in Conns : Accept(c)
    \/ AcceptRaises
    \/ \E c \in Conns : Thread(c)

\* the server alone, started and stopped; every thread that can take a step
\* takes one in the end: a pending receive returns, a callback returns or raises
SpecShutdown == InitShutdown /\ [][NextShutdown]_vars /\ \A c \in Conns : WF_vars(Thread(c))


(***************************************************************************)
(* SessionStore: claims                                                    *)
(***************************************************************************)

\* C3: a get on a stored session returns absent exactly when the time since
\* the last successful access (create, get or set) exceeds ttl; otherwise it
\* returns the stored data and restarts the idle clock (last_accessed = now),
\* so a session accessed at least once every ttl seconds never expires.
C3_IdleExpiry ==
    (sop.op = "get" /\ sop.pre) =>
        /\ (sop.ret = None) <=> (sop.idle > ttl)
        /\ sop.ret # None =>
              /\ sop.ret = sop.data
              /\ sop.id \in DOMAIN sessions
              /\ sessions[sop.id].last_accessed = now

\* a session older than ttl that a get still returns, because it was accessed in between
C3_Witness ==
    /\ sop.op = "get" /\ sop.pre /\ sop.ret # None
    /\ now - sessions[sop.id].created_at > ttl
    /\ sop.idle > 0

Without(id) == [i \in DOMAIN sessions \ {id} |-> sessions[i]]

SetStep ==
    sop'.op = "set" =>
        /\ sop'.ret = (sop'.id \in DOMAIN sessions)
        /\ sop'.id \notin DOMAIN sessions => sessions' = sessions
        /\ sop'.id \in DOMAIN sessions =>
              sessions' = [sessions EXCEPT ![sop'.id] =
                             [data |-> sop'.arg, created_at |-> @.created_at,
                              last_accessed |-> now]]

DestroyStep ==
    sop'.op = "destroy" =>
        /\ sop'.ret = (sop'.id \in DOMAIN sessions)
        /\ sessions' = Without(sop'.id)

\* an id that was issued and is no longer stored stays out of the store, and
\* a get on an id that is not stored returns absent
GoneStep ==
    /\ \A id \in DOMAIN lastOk : id \notin DOMAIN sessions => id \notin DOMAIN sessions'
    /\ (sop'.op = "get" /\ sop'.id \notin DOMAIN sessions) => sop'.ret = None

\* C15: set returns false and changes nothing iff the id is not stored, and
\* otherwise replaces the data and sets last_accessed to now; destroy returns
\* true iff the id was stored and leaves it out of the store; from then on
\* the id stays out, so get returns absent, set false and destroy false.
C15_SetDestroy == [][SetStep /\ DestroyStep /\ GoneStep]_vars

\* a set that returns false on an id issued before and idle for no more than
\* ttl: it was destroyed
C15_Witness ==
    /\ sop.op = "set"
    /\ sop.ret = FALSE
    /\ sop.id \in DOMAIN lastOk
    /\ now - lastOk[sop.id] <= ttl

(***************************************************************************)
(* SessionStore from several threads: claims C16, C17                      *)
(***************************************************************************)
GetDiscovers ==
    (sop'.op = "get" /\ sop'.id \in DOMAIN sessions /\ Expired(sessions[sop'.id], now)) =>
        /\ sop'.ret = None
        /\ sop'.id \notin DOMAIN sessions'

StaysGone ==
    /\ \A id \in DOMAIN lastOk : id \notin DOMAIN sessions => id \notin DOMAIN sessions'
    /\ (sop'.op = "get" /\ sop'.id \notin DOMAIN sessions) => sop'.ret = None
    /\ (sop'.op \in {"set", "destroy"} /\ sop'.id \notin DOMAIN sessions) => sop'.ret = FALSE

CleanupExact ==
    sop'.op = "cleanup" =>
        sessions' = [i \in {j \in DOMAIN sessions : ~Expired(sessions[j], now)} |-> sessions[i]]

\* C16: a get that finds its entry idle for more than ttl returns absent and
\* deletes it; an id that left the store stays out, so get returns absent, set
\* false and destroy false on it; a cleanup pass removes exactly the entries
\* whose idle time exceeds ttl.
C16_ExpiredDeleted == [][GetDiscovers /\ StaysGone /\ CleanupExact]_vars

\* C17: the critical sections run one at a time, and the values returned so
\* far are those of some sequential order of the same calls, each run alone
\* at an instant between its call and its return.
C17_Linearizable == lin # {}

\* what the dict stored for id holds
StoredDict(id, H, S) == H[S[id].data].val

\* C32: no dict of the host program is shared with a stored session: what
\* the dict stored for an id holds changes only in a set(id, ...) that
\* succeeds, and last_accessed changes only in a get or set on that id.
C32_NoSharedState ==
    [][\A id \in SessionIds :
          (id \in DOMAIN sessions /\ id \in DOMAIN sessions') =>
              /\ StoredDict(id, heap', sessions') # StoredDict(id, heap, sessions) =>
                    (sop'.op = "set" /\ sop'.id = id /\ sop'.ret = TRUE)
              /\ sessions'[id].last_accessed # sessions[id].last_accessed =>
                    (sop'.op \in {"get", "set"} /\ sop'.id = id)]_vars

\* C28: once a stored session's idle time has exceeded ttl, no later get(id)
\* returns its data, whatever calls were made on the id since.
C28_ExpiredNeverSeen == (sop.op = "get" /\ sop.id \in lapsed) => sop.ret = None

(***************************************************************************)
(* RateLimiter: claims                                                     *)
(***************************************************************************)
RECURSIVE SumAdmitted(_, _, _)
SumAdmitted(k, lo, hi) ==
    IF hi < lo THEN 0
    ELSE (IF hi \in 0..MaxRateTime THEN admitted[k][hi] ELSE 0) + SumAdmitted(k, lo, hi - 1)

\* C4: in every interleaving, the calls admitted for a key within any trailing
\* interval of length window, (T - window, T], number at most max.
C4_WindowNeverExceeded ==
    \A k \in RateKeys : \A T \in 0..MaxRateTime :
        SumAdmitted(k, T - window + 1, T) <= maxRequests

RECURSIVE MinOf(_)
MinOf(ts) == IF Len(ts) = 1 THEN ts[1]
             ELSE IF ts[1] <= MinOf(Tail(ts)) THEN ts[1] ELSE MinOf(Tail(ts))

Elems(ts) == {ts[i] : i \in 1..Len(ts)}

\* C5: an isAllowed made once window has elapsed since the oldest recorded
\* admission is admitted, and a denied call records no timestamp (the list it
\* leaves holds only timestamps that were there before, and no more of them).
C5_AdmittedAgainAfterWindow ==
    rop.op = "is_allowed" =>
        /\ (rop.pre # << >> /\ rop.now - MinOf(rop.pre) >= window) => rop.ret
        /\ ~rop.ret =>
              /\ Len(requests[rop.key]) <= Len(rop.pre)
              /\ Elems(requests[rop.key]) \subseteq Elems(rop.pre)
              /\ rop.now \notin Elems(requests[rop.key]) \ Elems(rop.pre)

\* a key at its limit, denied before, admitted again exactly when the window has elapsed
C5_Witness ==
    /\ rop.op = "is_allowed" /\ rop.ret /\ rop.afterDenial
    /\ Len(rop.pre) = maxRequests
    /\ rop.now - MinOf(rop.pre) = window

\* the recorded admissions inside the window that trails the instant t0
InWindow(ts, t0) == {i \in 1..Len(ts) : t0 - ts[i] < window}

\* C24: remaining returns max(0, max - c), c the recorded admissions inside
\* the trailing window; it records no timestamp (what it leaves is what was
\* there, less the timestamps outside the window), so an isAllowed at any
\* later instant returns and records the same with or without it; and
\* isAllowed returns true iff remaining at the same instant is above 0.
C24_Remaining ==
    /\ rop.op = "remaining" =>
          /\ rop.ret = Max2(0, maxRequests - Cardinality(InWindow(rop.pre, rop.now)))
          /\ requests[rop.key] = SelectSeq(rop.pre, LAMBDA t : rop.now - t < window)
          /\ \A t1 \in rop.now..MaxRateTime :
                IsAllowedResult(requests[rop.key], t1) = IsAllowedResult(rop.pre, t1)
    /\ rop.op = "is_allowed" => (rop.ret <=> RemainingResult(rop.pre, rop.now) > 0)

\* a remaining call that dropped a timestamp outside the window and still
\* counted one inside it
C24_Witness ==
    /\ rop.op = "remaining"
    /\ Len(requests[rop.key]) < Len(rop.pre)
    /\ rop.ret < maxRequests
    /\ rop.ret > 0

\* C30: each key's timestamps are in non-decreasing order and number at most
\* max, and right after an isAllowed or remaining call on a key its
\* timestamps are all newer than that call's now - window.
C30_RateWindow ==
    /\ \A k \in DOMAIN requests :
          /\ \A i \in 1..Len(requests[k]) : \A j \in i..Len(requests[k]) :
                requests[k][i] <= requests[k][j]
          /\ Len(requests[k]) <= maxRequests
    /\ rop.op # "none" =>
          \A i \in 1..Len(requests[rop.key]) : requests[rop.key][i] > rop.now - window

(***************************************************************************)
(* CORSHandler: claims                                                     *)
(***************************************************************************)
ACAO == "Access-Control-Allow-Origin"

\* the origin the claim selects, for a non-empty allow-set
SelectedOrigin(c, o) ==
    IF \E i \in 1..Len(c.origins) : c.origins[i] = "*" THEN "*"
    ELSE IF Truthy(o) /\ \E i \in 1..Len(c.origins) : c.origins[i] = o THEN o
    ELSE c.origins[1]

\* C7 as stated: for every allow-set and every request origin the header is
\* '*' iff the allow-set holds the wildcard, else the request origin when it
\* is present and allowed, else the first configured origin.
C7_Original ==
    corsCall # Unset =>
        /\ ACAO \in DOMAIN corsCall.headers
        /\ cors.origins # << >> =>
              corsCall.headers[ACAO] = SelectedOrigin(cors, corsCall.origin)

\* C7 as amended: the selection holds for every non-empty allow-set; for an
\* empty allow-set no Access-Control-Allow-Origin header is emitted at all.
\* Without the wildcard in the allow-set the header is never '*'.
C7_OriginSelection ==
    corsCall # Unset =>
        /\ cors.origins # << >> =>
              /\ ACAO \in DOMAIN corsCall.headers
              /\ corsCall.headers[ACAO] = SelectedOrigin(cors, corsCall.origin)
              /\ (corsCall.headers[ACAO] = "*") <=> ("*" \in Range(cors.origins))
        /\ cors.origins = << >> => ACAO \notin DOMAIN corsCall.headers

\* allow-set [https://a.com], origin https://b.com: the fallback https://a.com
C7_Witness ==
    /\ corsCall # Unset
    /\ cors.origins = <<"https://a.com">>
    /\ corsCall.origin = "https://b.com"
    /\ corsCall.headers[ACAO] = "https://a.com"

\* C25: every add_headers call returns a header set that holds
\* Access-Control-Allow-Methods, Access-Control-Allow-Headers and
\* Access-Control-Max-Age, holds Access-Control-Allow-Credentials iff the
\* policy enables credentials, leaves the policy as it was, and returns the
\* headers the previous call returned when that call had the same origin.
C25_PureHeaders ==
    [][corsCall' # Unset =>
          /\ {"Access-Control-Allow-Methods", "Access-Control-Allow-Headers",
               "Access-Control-Max-Age"} \subseteq DOMAIN corsCall'.headers
          /\ ("Access-Control-Allow-Credentials" \in DOMAIN corsCall'.headers) <=> cors.credentials
          /\ cors' = cors
          /\ (corsCall # Unset /\ corsCall.origin = corsCall'.origin) =>
                corsCall'.headers = corsCall.headers]_vars

\* a call on a policy with credentials enabled and one with them disabled
C25_Witness ==
    /\ corsCall # Unset
    /\ cors.credentials
    /\ "Access-Control-Allow-Credentials" \in DOMAIN corsCall.headers
    /\ corsCall.origin = "https://c.com"

(***************************************************************************)
(* Request bodies: claims                                                  *)
(***************************************************************************)
Decoded == decoded # Unset /\ decoded.out # Unset
WellFormed == Decoded /\ decoded.parts # Unset

\* what the claim expects of a well-formed body built from the parts ps
FieldIdx(ps) == {i \in 1..Len(ps) : ps[i].filename = None}
FileIdx(ps) == {i \in 1..Len(ps) : ps[i].filename # None}
ExpectedFile(ps) ==
    [fieldname |-> ps.name, filename |-> ps.filename, content |-> ps.content,
     content_type |-> IF ps.ctype = None THEN "application/octet-stream" ELSE ps.ctype,
     size |-> Len(ps.content)]
ExpectedFiles(ps) ==
    LET fs == SelectSeq(ps, LAMBDA x : x.filename # None)
    IN [i \in 1..Len(fs) |-> ExpectedFile(fs[i])]
ExpectedNames(ps) ==
    {ps[i].name : i \in FieldIdx(ps)} \cup (IF FileIdx(ps) # {} THEN {"_files"} ELSE {})

C10_DecodeNeverRaises == Decoded => ~decoded.out.raised

(***************************************************************************)
(* Claims: routes and dispatch                                             *)
(***************************************************************************)
Segments(p) == SplitOn(p, "/", << >>)

\* the template fits the path: as many segments, a parameter segment against
\* a segment that is not empty, any other segment against itself
Fits(template, p) ==
    LET ts == Segments(template)
        ps == Segments(p)
    IN /\ Len(ts) = Len(ps)
       /\ \A i \in 1..Len(ts) :
             IF ts[i] # << >> /\ ts[i][1] \in Params THEN ps[i] # << >> ELSE ps[i] = ts[i]

ParamSegments(template) ==
    {i \in 1..Len(Segments(template)) :
        Segments(template)[i] # << >> /\ Segments(template)[i][1] \in Params}

NamedSegments(template, p) ==
    [n \in {ParamName(Segments(template)[i][1]) : i \in ParamSegments(template)} |->
        Segments(p)[CHOOSE i \in ParamSegments(template) : ParamName(Segments(template)[i][1]) = n]]

\* the routes that serve (method, p), by position in the registry
Serving(method, p) ==
    {i \in 1..Len(routes) : method \in Range(routes[i].methods) /\ Fits(routes[i].path, p)}

Earliest(S) == CHOOSE i \in S : \A j \in S : i <= j

Response404 ==
    <<[status |-> 404, ctype |-> "application/json", headers |-> << >>,
       body |-> [json |-> [error |-> "Not found"]]]>>

MethodMismatch ==
    /\ http # Unset
    /\ \E i \in 1..Len(routes) : Fits(routes[i].path, http.path)
    /\ Serving(http.method, http.path) = {}

\* C1 as stated: a request whose path fits some template but whose method no
\* fitting route accepts is answered 404 Not found.
C1_Original == MethodMismatch => http.sent = Response404

\* C1: when no static mount prefix starts the path, a request that no route
\* serves is answered with the one response 404 {"error": "Not found"}, no
\* callback is called and nothing is raised, whether its path fits a
\* template under another method or fits no template at all.
C1_MethodMismatch404 ==
    (http # Unset /\ StaticMount(http.path) = 0 /\ Serving(http.method, http.path) = {})
        => /\ http.sent = Response404
           /\ http.calls = << >>
           /\ ~http.raised

\* POST /a/static against the one route GET /a/static, no static mount
C1_Witness ==
    /\ MethodMismatch
    /\ StaticMount(http.path) = 0
    /\ http.method = "POST"
    /\ http.path = TplAStatic
    /\ http.sent = Response404

\* on the request just handled
MatchCorrect ==
    http # Unset =>
        LET serving == Serving(http.method, http.path)
            result == MatchRoute(routes, http.method, http.path)
        IN IF serving = {} THEN ~result.found
           ELSE LET r == routes[Earliest(serving)]
                    chosen == [handler |-> r.handler, params |-> NamedSegments(r.path, http.path)]
                IN /\ result = [found |-> TRUE, handler |-> chosen.handler, params |-> chosen.params]
                   /\ StaticMount(http.path) = 0 => http.calls = <<chosen>>

AppendOnly == Len(routes') >= Len(routes) /\ SubSeq(routes', 1, Len(routes)) = routes

\* C2: _match_route returns the handler and the named segments of the
\* earliest registered route whose methods hold the method and whose template
\* fits the path, and the registry only ever grows at its end.
C2_FirstMatchWins == [](MatchCorrect) /\ [][AppendOnly]_vars

\* /a/:id registered before /a/static with another handler: GET /a/static
\* calls the first, with id = static
C2_Witness ==
    /\ Len(routes) = 2
    /\ routes[1].path = TplAId
    /\ routes[2].path = TplAStatic
    /\ routes[1].handler # routes[2].handler
    /\ http # Unset
    /\ http.method = "GET"
    /\ http.path = TplAStatic
    /\ Serving("GET", TplAStatic) = {1, 2}
    /\ http.calls = <<[handler |-> routes[1].handler, params |-> [id |-> <<"static">>]]>>

HelloRequest ==
    /\ http # Unset
    /\ Len(routes) >= 1
    /\ routes[1].path = TplHello
    /\ routes[1].handler = "hello"
    /\ "GET" \in Range(routes[1].methods)
    /\ StaticMount(http.path) = 0
    /\ \A i \in 1..Len(middleware) : middleware[i] \in {"pass", "tag"}
    /\ http.method = "GET"
    /\ http.path = <<"/", "hello", "/", "Ann">>

\* C8: with the route GET /hello/:name registered first, no static mount on
\* the path and no middleware that answers or raises, GET /hello/Ann calls the
\* handler once with name = Ann and is answered 200 {"msg": "hi Ann"}.
C8_HelloEndToEnd ==
    HelloRequest =>
        /\ {i \in 1..Len(http.calls) : "handler" \in DOMAIN http.calls[i]} # {}
        /\ \A i \in 1..Len(http.calls) :
              "handler" \in DOMAIN http.calls[i] =>
                 /\ i = Len(http.calls)
                 /\ http.calls[i] = [handler |-> "hello", params |-> [name |-> <<"Ann">>]]
        /\ http.sent = <<[status |-> 200, ctype |-> "application/json", headers |-> << >>,
                          body |-> [json |-> [msg |-> <<"hi ", "Ann">>]]]>>

\* the request got as far as the middleware chain
ReachedChain ==
    /\ http # Unset
    /\ StaticMount(http.path) = 0
    /\ Serving(http.method, http.path) # {}
    /\ ~http.raised

\* the middleware that answer with a status or raise
Stopping == {i \in 1..Len(middleware) : middleware[i] \in {"deny", "boom"}}

\* C11: on a request that reaches the chain, the middleware are called in
\* registration order, once each, up to and including the first that answers
\* with a status or raises; one that returns nothing or a value without a
\* status is followed by the next; the handler is called, last, iff none
\* answered or raised.
C11_MiddlewareChain ==
    ReachedChain =>
        LET n == IF Stopping = {} THEN Len(middleware) ELSE Earliest(Stopping)
        IN /\ Len(http.calls) = IF Stopping = {} THEN n + 1 ELSE n
           /\ \A i \in 1..n : DOMAIN http.calls[i] = {"mw"} /\ http.calls[i].mw = i
           /\ Stopping = {} => "handler" \in DOMAIN http.calls[n + 1]

\* a middleware that returns a value without a status, then one that answers
\* 401: both are called, the handler is not
C11_Witness ==
    /\ ReachedChain
    /\ middleware = <<"tag", "deny">>
    /\ Len(http.calls) = 2
    /\ http.calls[2] = [mw |-> 2]
    /\ http.sent[1].status = 401

\* the mounts whose prefix starts the path of the request
Mounts == {i \in 1..Len(staticRoutes) : StartsWith(http.path, staticRoutes[i].url_path)}

\* C14: a request whose path starts with the prefix of a static mount is
\* answered by the first such mount alone, with the file, 404 File not found
\* or 500 Error reading file; no callback is called and nothing is raised,
\* whatever the method, the Content-Length, the body and the routes.
C14_StaticBypass ==
    (http # Unset /\ Mounts # {}) =>
        LET mount == staticRoutes[Earliest(Mounts)]
            file == LStrip(SubSeq(http.path, Len(mount.url_path) + 1, Len(http.path)))
        IN /\ http.calls = << >>
           /\ ~http.raised
           /\ Len(http.sent) = 1
           /\ \/ http.sent[1].status = 200 /\ http.sent[1].body = [file |-> <<mount.directory>> \o file]
              \/ http.sent = <<[status |-> 404, ctype |-> "application/json", headers |-> << >>,
                                body |-> [json |-> [error |-> "File not found"]]]>>
              \/ http.sent = <<[status |-> 500, ctype |-> "application/json", headers |-> << >>,
                                body |-> [json |-> [error |-> "Error reading file"]]]>>

\* the file system resolves file_path from the mounted directory: a name goes
\* one level down, '..' one level up; the path leaves the directory when it
\* goes up from level 0
RECURSIVE Escapes(_, _, _)
Escapes(file_path, depth, inName) ==
    IF file_path = << >> THEN FALSE
    ELSE IF Head(file_path) = "/" THEN Escapes(Tail(file_path), depth, FALSE)
    ELSE IF Head(file_path) = ".." /\ ~inName
    THEN depth = 0 \/ Escapes(Tail(file_path), depth - 1, TRUE)
    ELSE Escapes(Tail(file_path), IF inName THEN depth ELSE depth + 1, TRUE)

\* C33: a request whose path starts with the prefix of a static mount is
\* answered with a file only if that file lies under the mounted directory,
\* '..' segments and a merely shared prefix included; otherwise with 404.
C33_InsideMount ==
    (http # Unset /\ Mounts # {}) =>
        LET mount == staticRoutes[Earliest(Mounts)]
            file == LStrip(SubSeq(http.path, Len(mount.url_path) + 1, Len(http.path)))
        IN Escapes(file, 0, FALSE) =>
              http.sent = <<[status |-> 404, ctype |-> "application/json", headers |-> << >>,
                             body |-> [json |-> [error |-> "File not found"]]]>>

\* two mounts start the path, a route and a middleware would serve it, the
\* body would not decode: the file of the first mount is the answer
C14_Witness ==
    /\ http # Unset
    /\ Mounts = {1, 2}
    /\ staticRoutes[1].directory # staticRoutes[2].directory
    /\ Serving(http.method, http.path) # {}
    /\ middleware # << >>
    /\ http.method = "POST"
    /\ http.cl = "number"
    /\ http.sent[1].status = 200
    /\ http.path = TplAStatic
    /\ http.sent[1].body = [file |-> <<staticRoutes[1].directory, "static">>]

\* the request was routed and its body read and decoded
RequestBuilt ==
    /\ http # Unset
    /\ StaticMount(http.path) = 0
    /\ Serving(http.method, http.path) # {}
    /\ http.cl # "invalid"
    /\ ~ParseBody(http.ct, BodyRead(http)).raised

Response500(message) ==
    <<[status |-> 500, ctype |-> "application/json", headers |-> << >>,
       body |-> [json |-> [error |-> message]]]>>

\* C12: when a middleware raises, or every middleware lets the request pass
\* and the handler raises, the one response is 500 {"error": message} and
\* nothing is raised out of the request; every 404 and 500 written is JSON
\* {"error": message}.
C12_FailureIs500 ==
    /\ RequestBuilt =>
          /\ ~http.raised
          /\ (Stopping # {} /\ middleware[Earliest(Stopping)] = "boom")
                => http.sent = Response500("boom")
          /\ (Stopping = {} /\ routes[Earliest(Serving(http.method, http.path))].handler = "boom")
                => http.sent = Response500("boom")
    /\ http # Unset =>
          \A i \in 1..Len(http.sent) :
              http.sent[i].status \in {404, 500} =>
                 /\ http.sent[i].ctype = "application/json"
                 /\ DOMAIN http.sent[i].body = {"json"}
                 /\ DOMAIN http.sent[i].body.json = {"error"}

\* a middleware that lets the request pass, then a handler that raises
C12_Witness ==
    /\ RequestBuilt
    /\ middleware = <<"pass">>
    /\ Len(http.calls) = 2
    /\ http.calls[2] = [handler |-> "boom", params |-> [id |-> <<"x">>]]
    /\ http.sent = Response500("boom")

\* the handler was called and returned: what it returned
HandlerAnswered ==
    /\ ReachedChain
    /\ Len(http.calls) > 0
    /\ "handler" \in DOMAIN http.calls[Len(http.calls)]

Returned13 ==
    HandlerReturn(http.calls[Len(http.calls)].handler,
                  [params |-> http.calls[Len(http.calls)].params])

OrElse(x, default) == IF x = Unset THEN default ELSE x.v

\* C13 as stated: a value that is not absent and not a structure carrying a
\* status is answered 200 text/plain with the stringified value.
C13_Original ==
    (HandlerAnswered /\ Returned13.t \in {"dict", "other"}
        /\ ~(Returned13.t = "dict" /\ Returned13.status # Unset))
        => /\ Len(http.sent) = 1
           /\ http.sent[1].status = 200
           /\ http.sent[1].ctype = "text/plain"
           /\ "str" \in DOMAIN http.sent[1].body

\* C13: absent is answered 204 with no body; a dict, with or without a
\* status, is answered with its status (200 if missing), its content type
\* (application/json if missing), its headers and one Set-Cookie line per
\* cookie, and its body: a dict or list as JSON, bytes unchanged, a missing
\* body as the empty string, anything else stringified; a value that is not
\* a dict is answered 200 text/plain with the stringified value.
C13_ResponseMapping ==
    (HandlerAnswered /\ Returned13.t # "raise"
        /\ ~(Returned13.t = "dict" /\ Returned13.body # Unset /\ "bad" \in DOMAIN Returned13.body))
        => /\ Len(http.sent) = 1
           /\ Returned13.t = "none" =>
                 http.sent[1] = [status |-> 204, ctype |-> None, headers |-> << >>, body |-> Unset]
           /\ Returned13.t = "other" =>
                 http.sent[1] = [status |-> 200, ctype |-> "text/plain", headers |-> << >>,
                                 body |-> [str |-> Stringify(Returned13.value)]]
           /\ Returned13.t = "dict" =>
                 /\ http.sent[1].status = OrElse(Returned13.status, 200)
                 /\ http.sent[1].ctype = OrElse(Returned13.contentType, "application/json")
                 /\ http.sent[1].headers =
                       OrElse(Returned13.headers, << >>)
                          \o [i \in 1..Len(OrElse(Returned13.cookies, << >>)) |->
                                <<"Set-Cookie", <<Returned13.cookies.v[i][1], "=",
                                                  Returned13.cookies.v[i][2]>>>>]
                 /\ LET body == Returned13.body
                    IN http.sent[1].body =
                          IF body = Unset THEN [str |-> ""]
                          ELSE IF "json" \in DOMAIN body THEN [json |-> body.json]
                          ELSE IF "list" \in DOMAIN body THEN [jsonlist |-> body.list]
                          ELSE IF "bytes" \in DOMAIN body THEN [bytes |-> body.bytes]
                          ELSE [str |-> Stringify(body)]

\* a dict without a status whose body is a dict: 200, application/json
C13_Witness ==
    /\ HandlerAnswered
    /\ http.calls[Len(http.calls)].handler = "barebody"
    /\ http.sent = <<[status |-> 200, ctype |-> "application/json", headers |-> << >>,
                      body |-> [json |-> [a |-> 1]]]>>

\* C26: every request handled ends with exactly one response written, a
\* response or an error response, never both and never neither, whatever
\* the stage that failed.
C26_OneTerminalState == http # Unset => Len(http.sent) = 1

(***************************************************************************)
(* Claims: WebSocket frames                                                *)
(***************************************************************************)
\* the first frame did not arrive whole, or it is a text frame whose payload
\* is not UTF-8
Broken == ws.truncated \/ (ws.opcode = 1 /\ ~Decode(ws.payload).ok)

\* C19: when the first frame cannot be decoded, the read returns no message,
\* nothing is delivered and the connection is closed.
C19_DecodeFailureCloses ==
    (ws # Unset /\ ws.reads = 1 /\ ~ws.after /\ Broken) =>
        /\ ws.out.msg = Unset
        /\ ws.delivered = << >>
        /\ ~ws.connected

\* C20: a whole frame whose opcode is neither text nor close, read without a
\* short read, yields no message and leaves the connection connected, and
\* the text frame after it is delivered by the next read.
C20_OtherOpcodesIgnored ==
    (ws # Unset /\ ws.reads >= 1 /\ ws.opcode \notin {1, 8} /\ ~ws.truncated /\ ~ws.short) =>
        /\ ws.reads = 1 => (ws.out.msg = Unset /\ ws.delivered = << >> /\ ws.connected)
        /\ (ws.reads = 2 /\ ws.after) => ws.delivered = <<After>>

\* C18: a frame that was sent starts with 0x81; a payload of n <= 125 bytes is
\* preceded by the length byte n, one of 126 <= n <= 65535 by 126 and n in 2
\* big-endian bytes, a longer one by 127 and n in 8 big-endian bytes; the mask
\* bit is not set and no mask key is written; the payload is the UTF-8 bytes
\* of the message.
C18_FrameEncoding ==
    (ws # Unset /\ ws.sent # Unset /\ ws.sent # NotSent) =>
        LET n == Encode(ws.message).len
            h == ws.sent.head
        IN /\ Len(h) >= 2
           /\ h[1] = 129
           /\ h[2] < 128
           /\ n <= 125 => h = <<129, n>>
           /\ (126 <= n /\ n <= 65535) => h = <<129, 126, n \div 256, n % 256>>
           /\ n > 65535 =>
                 /\ Len(h) = 10
                 /\ h[2] = 127
                 /\ \A k \in 1..5 : h[2 + k] = (n \div 16777216) % 256
                 /\ h[8] = (n \div 65536) % 256
                 /\ h[9] = (n \div 256) % 256
                 /\ h[10] = n % 256
           /\ ws.sent.run = Encode(ws.message)

\* the HTTP host has sent a payload of more than 65535 bytes
C18_Witness ==
    /\ ws # Unset
    /\ ws.sent # Unset
    /\ ws.sent # NotSent
    /\ ws.host = "http"
    /\ Encode(ws.message).len > 65535

\* C6: the frame received is a masked text frame that carries ws.message; what
\* is received is exactly that message, and the length read from the header
\* of a frame is the length the encoder writes for the same payload.
C6_RoundTrip ==
    (ws # Unset /\ ws.out # Unset)
        => /\ ws.out.msg = [text |-> ws.message]
           /\ ws.out.length = [v |-> Encode(ws.message).len]

\* what each sock.recv of one _receive_message call returns
RecvPlans == [h : RecvChoices, e : RecvChoices, m : RecvChoices, d : RecvChoices]

\* C31: the two hosts write the same bytes for every message, and on every
\* stream of bytes that has arrived, whole or cut short, masked or not, their
\* decoders return the same text or both return no message.
C31_SameCodec ==
    ws # Unset =>
        /\ \A message \in Messages : Send(message) = SendMessage(message)
        /\ \A c \in RecvPlans : ReceiveMessage(ws.wire, c).msg = Receive(ws.wire).msg

(***************************************************************************)
(* Claims: WebSocketServer                                                 *)
(***************************************************************************)
\* the callbacks of one event that connection c has invoked, in order
Calls(c, ev) == SelectSeq(conn[c].log, LAMBDA e : e.ev = ev)

\* the handshake of connection c is over
Shaken(c) == conn[c].pc \notin {"new", "handshake"}

\* C21: a connection whose handshake request carried no Sec-WebSocket-Key is
\* sent no 101 response, is never in the registry, and has none of the
\* connect, message and disconnect callbacks invoked for it.
C21_NoKeySilent ==
    \A c \in Conns :
        (Shaken(c) /\ ~conn[c].key) =>
            /\ ~conn[c].sent101
            /\ ~Registered(c)
            /\ conn[c].log = << >>

\* C22: when the thread of a handshaken connection has finished, for any
\* reason, the disconnect callback has been invoked, the client id is not in
\* the registry and the socket is closed.
C22_TerminatedLeavesNothing ==
    \A c \in Conns :
        (conn[c].pc = "done" /\ conn[c].sent101) =>
            /\ "disconnect" \in handlers => Calls(c, "disconnect") # << >>
            /\ ~Registered(c)
            /\ conn[c].closed

\* C23: a broadcast that has returned raised nothing, has sent to every client
\* of its snapshot or seen the send fail, and no client whose send failed is
\* in the registry.
C23_BroadcastSilent ==
    \A a \in Callers :
        (call[a].op = "broadcast" /\ call[a].pc = "done") =>
            /\ call[a].result = "ok"
            /\ call[a].sent \cup call[a].failed = Range(call[a].snapshot)
            /\ call[a].failed \cap Range(clients) = {}

\* C27: per connection, the connect callback runs first, once, with the
\* client registered; the message callback runs once per text frame received,
\* in arrival order; the disconnect callback runs last, at most once, once
\* when the thread has finished, and only if the connect step was reached.
C27_CallbackOrder ==
    \A c \in Conns :
        LET log == conn[c].log
        IN /\ \A i \in 1..Len(log) : log[i].ev = "connect" => i = 1 /\ log[i].stored
           /\ ("connect" \in handlers /\ log # << >> /\ conn[c].reached) => log[1].ev = "connect"
           /\ "message" \in handlers =>
                 [i \in 1..Len(Calls(c, "message")) |-> Calls(c, "message")[i].msg] = conn[c].got
           /\ \A i \in 1..Len(log) :
                 log[i].ev = "disconnect" => i = Len(log) /\ conn[c].reached
           /\ (conn[c].pc = "done" /\ conn[c].reached /\ "disconnect" \in handlers) =>
                 Len(Calls(c, "disconnect")) = 1

\* C29: no access to the registry finds that the entry it has just seen is
\* gone: neither send, nor broadcast, nor a connection thread raises KeyError,
\* and send delivers to the client registered under id or does nothing
\* because id is absent.
C29_RegistryExclusive ==
    /\ \A a \in Callers :
          /\ call[a].result # "KeyError"
          /\ (call[a].op = "send" /\ call[a].result = "absent") => call[a].sent = {}
          /\ (call[a].op = "send" /\ call[a].result = "delivered") => call[a].sent = {call[a].id}
    /\ \A c \in Conns : conn[c].error # "KeyError"

\* every connection thread has finished (or was never started) and the
\* registry is empty
AllTerminated == clients = << >> /\ \A c \in Conns : conn[c].pc \in {"new", "done"}

\* C34: while the running flag is cleared no connection thread starts another
\* receive, so that a thread invokes at most the message callback of the
\* receive it was in and then leaves its loop, and no further connection is
\* accepted; and once stop has cleared the flag, all connection threads
\* eventually terminate with an empty registry.
C34_Shutdown ==
    /\ [][~running' =>
            \A c \in Conns :
                /\ conn'[c].pc = "recv" => conn[c].pc = "recv"
                /\ conn[c].pc = "new" => conn'[c].pc = "new"]_vars
    /\ (loop # "off" /\ ~running) ~> AllTerminated

====
